---- MODULE Spec2Model ----
(***************************************************************************)
(* Node balancer controller (NodeBalancerReconciler).                      *)
(*                                                                         *)
(* The cluster (nodes, pods, disruption budgets, events) is the API        *)
(* server's state.  A sweep is one call of Reconcile; it is cut at its     *)
(* API calls, each action being one API call together with the local       *)
(* computation that follows it up to the next call.                        *)
(*                                                                         *)
(* Numbers.  CPU is in millicores (Quantity.MilliValue), memory in bytes   *)
(* (Quantity.Value).  The float64 percentages of the code are integers     *)
(* here: every allocatable capacity and request of the model is chosen so  *)
(* that total * 100 / allocatable is a whole number, and the division is   *)
(* then exact.  Byte counts are kept below 2^31 / 100.                      *)
(***************************************************************************)
EXTENDS Integers, Sequences, FiniteSets, TLC

VARIABLES nodes, pods, pdbs, events, sw, fn

vars == <<nodes, pods, pdbs, events, sw, fn>>

cluster == <<nodes, pods, pdbs, events>>

-----------------------------------------------------------------------------
(* Constants of the controller                                             *)

BalancerLabel == "node-balancer/enabled"

EvictableAnnotation == "node-balancer/evictable"

CPUThresholdHigh == 60

CPUThresholdLow == 40

MemoryThresholdHigh == 60

MemoryThresholdLow == 40

RequeueInterval == 30

EvictionGracePeriod == 30

MiB == 1024 * 1024

-----------------------------------------------------------------------------
(* Maps (Go map[string]string) are functions from a finite set of keys.    *)

EmptyMap == [k \in {} |-> ""]

HasKey(m, k) == k \in DOMAIN m

MinOf(a, b) == IF a < b THEN a ELSE b

-----------------------------------------------------------------------------
(* Classification of a usage snapshot                                      *)

ClassifyInclusive(cpu, mem) ==
    [IsOverloaded    |-> cpu >= CPUThresholdHigh \/ mem >= MemoryThresholdHigh,
     IsUnderutilized |-> cpu < CPUThresholdLow /\ mem < MemoryThresholdLow]

ClassifyEither(cpu, mem) ==
    [IsOverloaded    |-> cpu > CPUThresholdHigh \/ mem > MemoryThresholdHigh,
     IsUnderutilized |-> cpu < CPUThresholdLow \/ mem < MemoryThresholdLow]

ClassifyUnderByCPU(cpu, mem) ==
    [IsOverloaded    |-> cpu > CPUThresholdHigh \/ mem > MemoryThresholdHigh,
     IsUnderutilized |-> cpu < CPUThresholdLow]

Classify(cpu, mem) ==
    [IsOverloaded    |-> cpu > CPUThresholdHigh \/ mem > MemoryThresholdHigh,
     IsUnderutilized |-> cpu < CPUThresholdLow /\ mem < MemoryThresholdLow]

-----------------------------------------------------------------------------
(* Evictability of a pod                                                   *)

\* strconv.ParseBool: the accepted spellings of true; everything else gives
\* false (with an error the caller drops).
ParseBool(s) == s \in {"1", "t", "T", "TRUE", "true", "True"}

\* Affinity of a pod: "none" (Spec.Affinity nil), "pod" (Affinity set,
\* NodeAffinity nil), "preferred" (NodeAffinity set, no required term),
\* "required" (RequiredDuringSchedulingIgnoredDuringExecution set).
HasRequiredNodeAffinity(pod) == pod.affinity = "required"

isPodEvictableNsFirst(pod) ==
    IF pod.deleting THEN FALSE
    ELSE IF pod.namespace = "kube-system" THEN FALSE
    ELSE IF HasKey(pod.annotations, EvictableAnnotation)
         THEN ParseBool(pod.annotations[EvictableAnnotation])
    ELSE IF HasRequiredNodeAffinity(pod) THEN FALSE
    ELSE TRUE

isPodEvictableAnnFirst(pod) ==
    IF HasKey(pod.annotations, EvictableAnnotation)
         THEN ParseBool(pod.annotations[EvictableAnnotation])
    ELSE IF pod.deleting THEN FALSE
    ELSE IF pod.namespace = "kube-system" THEN FALSE
    ELSE IF HasRequiredNodeAffinity(pod) THEN FALSE
    ELSE TRUE

\* A predicate that passes over an annotation it cannot parse
isPodEvictableSkipsUnparseable(pod) ==
    IF pod.deleting THEN FALSE
    ELSE IF /\ HasKey(pod.annotations, EvictableAnnotation)
            /\ pod.annotations[EvictableAnnotation]
                  \in {"1", "t", "T", "TRUE", "true", "True",
                       "0", "f", "F", "FALSE", "false", "False"}
         THEN ParseBool(pod.annotations[EvictableAnnotation])
    ELSE IF pod.namespace = "kube-system" THEN FALSE
    ELSE IF HasRequiredNodeAffinity(pod) THEN FALSE
    ELSE TRUE

isPodEvictable(pod) ==
    IF pod.deleting THEN FALSE
    ELSE IF HasKey(pod.annotations, EvictableAnnotation)
         THEN ParseBool(pod.annotations[EvictableAnnotation])
    ELSE IF pod.namespace = "kube-system" THEN FALSE
    ELSE IF HasRequiredNodeAffinity(pod) THEN FALSE
    ELSE TRUE

-----------------------------------------------------------------------------
(* Requests of a pod.  A container is [hasRequests, cpu, mem]: Requests    *)
(* nil or not, cpu in millicores, mem in bytes.                            *)

RECURSIVE SumSeq(_)
SumSeq(s) == IF s = <<>> THEN 0 ELSE Head(s) + SumSeq(Tail(s))

ContainerCPU(c) == IF c.hasRequests THEN c.cpu ELSE 0

ContainerMemory(c) == IF c.hasRequests THEN c.mem ELSE 0

getPodCPURequest(pod) ==
    SumSeq([i \in DOMAIN pod.containers |-> ContainerCPU(pod.containers[i])])

getPodMemoryRequest(pod) ==
    SumSeq([i \in DOMAIN pod.containers |-> ContainerMemory(pod.containers[i])])

\* cpu.MilliValue() + memory.Value()/1024/1024, container by container
getPodTotalResources(pod) ==
    SumSeq([i \in DOMAIN pod.containers |->
              ContainerCPU(pod.containers[i])
                + (ContainerMemory(pod.containers[i]) \div 1024) \div 1024])

-----------------------------------------------------------------------------
(* Filters                                                                 *)

\* A filter that lets every node through
shouldBalanceNodeAny(node) == TRUE

shouldBalanceNode(node) == HasKey(node.labels, BalancerLabel)

getEvictablePods(podSeq) == SelectSeq(podSeq, isPodEvictable)

IsOver(u) == u.IsOverloaded

IsUnder(u) == u.IsUnderutilized

getOverloadedNodes(nodeUsages) == SelectSeq(nodeUsages, IsOver)

\* A destination set that is every analysed node
getUnderutilizedNodesAll(nodeUsages) == nodeUsages

getUnderutilizedNodes(nodeUsages) == SelectSeq(nodeUsages, IsUnder)

-----------------------------------------------------------------------------
(* sortPodsByResourceUsage: the exchange sort of the code, in place        *)

Swap(s, i, j) == [s EXCEPT ![i] = s[j], ![j] = s[i]]

RECURSIVE SortInner(_, _, _)
SortInner(s, i, j) ==
    IF j > Len(s) THEN s
    ELSE SortInner(IF getPodTotalResources(s[i]) < getPodTotalResources(s[j])
                     THEN Swap(s, i, j) ELSE s,
                   i, j + 1)

RECURSIVE SortOuter(_, _)
SortOuter(s, i) ==
    IF i > Len(s) - 1 THEN s ELSE SortOuter(SortInner(s, i, i + 1), i + 1)

\* A sort that stops one element short: the last pod is never compared.
sortPodsShort(podSeq) ==
    IF Len(podSeq) < 2 THEN podSeq
    ELSE SortOuter(SubSeq(podSeq, 1, Len(podSeq) - 1), 1) \o <<podSeq[Len(podSeq)]>>

sortPodsByResourceUsage(podSeq) == SortOuter(podSeq, 1)

-----------------------------------------------------------------------------
(* findBestTargetNode: index of the chosen element of underutilizedNodes,  *)
(* 0 for nil.  The pointer &underutilizedNodes[i] is the index i.          *)

Score(node, pod) ==
    (node.CPURequests + getPodCPURequest(pod))
      + (node.MemoryRequests + getPodMemoryRequest(pod))

RECURSIVE BestFrom(_, _, _, _, _)
BestFrom(under, pod, i, bestNode, bestScore) ==
    IF i > Len(under) THEN bestNode
    ELSE IF bestNode = 0 \/ Score(under[i], pod) < bestScore
         THEN BestFrom(under, pod, i + 1, i, Score(under[i], pod))
         ELSE BestFrom(under, pod, i + 1, bestNode, bestScore)

RECURSIVE BestFromLast(_, _, _, _, _)
BestFromLast(under, pod, i, bestNode, bestScore) ==
    IF i > Len(under) THEN bestNode
    ELSE IF bestNode = 0 \/ Score(under[i], pod) <= bestScore
         THEN BestFromLast(under, pod, i + 1, i, Score(under[i], pod))
         ELSE BestFromLast(under, pod, i + 1, bestNode, bestScore)

findBestTargetNodeLastWins(under, pod) == BestFromLast(under, pod, 1, 0, 0)

findBestTargetNode(under, pod) == BestFrom(under, pod, 1, 0, 0)

-----------------------------------------------------------------------------
(* Disruption budgets.  A selector is [present, matchLabels]; present is   *)
(* FALSE for a nil selector.  Labels are maps.                             *)

SelectorMatches(matchLabels, podLabels) ==
    \A k \in DOMAIN matchLabels :
        HasKey(podLabels, k) /\ podLabels[k] = matchLabels[k]

podMatchesPDB(pod, pdb) ==
    IF ~pdb.selector.present THEN FALSE
    ELSE SelectorMatches(pdb.selector.matchLabels, pod.labels)

\* The budgets r.List returns for client.InNamespace(namespace)
ListPDBs(namespace) == SelectSeq(pdbs, LAMBDA b : b.namespace = namespace)

PDBViolatedStrict(pod, pdbList) ==
    \E i \in DOMAIN pdbList :
        /\ podMatchesPDB(pod, pdbList[i])
        /\ pdbList[i].currentHealthy < pdbList[i].minAvailable

\* checkPodDisruptionBudget returns an error iff this holds
PDBViolated(pod, pdbList) ==
    \E i \in DOMAIN pdbList :
        /\ podMatchesPDB(pod, pdbList[i])
        /\ pdbList[i].currentHealthy <= pdbList[i].minAvailable

-----------------------------------------------------------------------------
(* Errors.  An API error is the set of the marker substrings its text      *)
(* contains; strings.Contains(err.Error(), m) is membership.  Nil is the   *)
(* nil error.                                                              *)

Nil == "nil"

Markers == {"PodDisruptionBudget", "not found", "forbidden"}

ErrTexts == SUBSET Markers

Contains(err, m) == m \in err

handleEvictionErrorNotFoundFatal(err) ==
    IF Contains(err, "PodDisruptionBudget") THEN Nil
    ELSE IF Contains(err, "forbidden") THEN "eviction forbidden"
    ELSE "eviction failed"

handleEvictionError(err) ==
    IF Contains(err, "PodDisruptionBudget") THEN Nil
    ELSE IF Contains(err, "not found") THEN Nil
    ELSE IF Contains(err, "forbidden") THEN "eviction forbidden"
    ELSE "eviction failed"

-----------------------------------------------------------------------------
(* Usage of a node                                                         *)

\* getPodsOnNode, given the items r.List returned
getPodsOnNode(items, nodeName) ==
    SelectSeq(items, LAMBDA p : p.nodeName = nodeName /\ isPodEvictable(p))

TotalCPU(podSeq) == SumSeq([i \in DOMAIN podSeq |-> getPodCPURequest(podSeq[i])])

TotalMemory(podSeq) == SumSeq([i \in DOMAIN podSeq |-> getPodMemoryRequest(podSeq[i])])

\* float64(total) / float64(allocatable) * 100, then math.Min(.., 100)
UsagePercentage(total, allocatable) == MinOf((total * 100) \div allocatable, 100)

CPUIsZero(node) == node.capacityCPU = 0 \/ node.allocatableCPU = 0

MemoryIsZero(node) == node.capacityMemory = 0 \/ node.allocatableMemory = 0

-----------------------------------------------------------------------------
(* One sweep: the locals of one call of Reconcile.                         *)
(*   pc                 the API call the sweep is about to make            *)
(*   targetNodes, ni    the labelled nodes and the one being analysed      *)
(*   cpuRequests, memoryRequests   the percentages computed for node ni    *)
(*   nodeUsages, overloadedNodes, underutilizedNodes   the snapshots       *)
(*   oi, evictablePods, pi, target   the loops of performRebalancing       *)
(*   result             what Reconcile returned                            *)
(* and, recorded for the properties:                                       *)
(*   attempts           the pods a target was chosen for, on node oi       *)
(*   evictRequests      the eviction requests issued in this sweep         *)
(*   audited            the pods an event was created for in this sweep    *)
(*   lostCreates        the pods whose event this sweep tried to create    *)
(*                      when the event existed already                     *)
(*   fatalEvictions     the pods for which evictPod returned an error      *)
(*   listedTerminating  the pods a node's listing showed as terminating    *)
(*   lastEvict          the evictPod call that has just returned: its pod, *)
(*                      whether the eviction was requested, whether the    *)
(*                      request failed and with which text, the return,    *)
(*                      and the error validateEviction gave, if any        *)

NoResult == [returned |-> FALSE, err |-> Nil, requeueAfter |-> 0]

NoEvict ==
    [pod |-> "", requested |-> FALSE, failed |-> FALSE, apiErr |-> {}, ret |-> Nil,
     validation |-> Nil]

IdleLocal ==
    [pc |-> "idle", targetNodes |-> <<>>, ni |-> 0,
     cpuRequests |-> 0, memoryRequests |-> 0,
     nodeUsages |-> <<>>, overloadedNodes |-> <<>>, underutilizedNodes |-> <<>>,
     oi |-> 0, evictablePods |-> <<>>, pi |-> 0, target |-> 0,
     result |-> NoResult,
     attempts |-> <<>>, evictRequests |-> {}, audited |-> {},
     lostCreates |-> {}, fatalEvictions |-> {},
     listedTerminating |-> {}, lastEvict |-> NoEvict]

\* Reconcile returns: its locals are gone, what is left is the result (and
\* the record of what the sweep did).
Returned(l, result) ==
    [IdleLocal EXCEPT !.pc = "done",
                      !.result = result,
                      !.evictRequests = l.evictRequests,
                      !.audited = l.audited,
                      !.lostCreates = l.lostCreates,
                      !.fatalEvictions = l.fatalEvictions,
                      !.listedTerminating = l.listedTerminating]

\* An error that is logged while the sweep goes on to rebalance the nodes
\* analysed so far
ReturnErrorGoOn(l, msg) ==
    IF getOverloadedNodes(l.nodeUsages) = <<>> \/ getUnderutilizedNodes(l.nodeUsages) = <<>>
    THEN Returned(l, [returned |-> TRUE, err |-> msg, requeueAfter |-> 0])
    ELSE [l EXCEPT !.pc = "node",
                   !.overloadedNodes = getOverloadedNodes(l.nodeUsages),
                   !.underutilizedNodes = getUnderutilizedNodes(l.nodeUsages),
                   !.oi = 1,
                   !.result = [returned |-> FALSE, err |-> msg, requeueAfter |-> 0]]

\* return ctrl.Result{}, err
ReturnError(l, msg) ==
    Returned(l, [returned |-> TRUE, err |-> msg, requeueAfter |-> 0])

\* return ctrl.Result{RequeueAfter: RequeueInterval}, nil
ReturnRequeue(l) ==
    Returned(l, [returned |-> TRUE, err |-> Nil, requeueAfter |-> RequeueInterval])

Set(s, l) == sw' = [sw EXCEPT ![s] = l]

\* Reconcile, up to the first pod listing: r.List of the nodes, the filter
\* on the balancer label.
ListNodes ==
  \E s \in DOMAIN sw :
    /\ sw[s].pc = "idle"
    /\ \E ok \in BOOLEAN :
         IF ~ok THEN Set(s, ReturnError(sw[s], "list nodes"))
         ELSE LET targetNodes == SelectSeq(nodes, shouldBalanceNode)
              IN IF Len(targetNodes) = 0
                 THEN Set(s, ReturnRequeue(sw[s]))
                 ELSE Set(s, [sw[s] EXCEPT !.pc = "cpu",
                                           !.targetNodes = targetNodes,
                                           !.ni = 1])
    /\ UNCHANGED <<cluster, fn>>

\* An analysis that starts over from the listing of the nodes when the
\* listing of a node's pods fails
CalcCPURestarts ==
  \E s \in DOMAIN sw :
    /\ sw[s].pc = "cpu"
    /\ LET l == sw[s]
           node == l.targetNodes[l.ni]
       IN IF CPUIsZero(node)
          THEN Set(s, [l EXCEPT !.pc = "mem", !.cpuRequests = 0])
          ELSE \E ok \in BOOLEAN :
                 IF ~ok THEN Set(s, IdleLocal)
                 ELSE Set(s, [l EXCEPT
                        !.pc = "mem",
                        !.cpuRequests =
                            UsagePercentage(TotalCPU(getPodsOnNode(pods, node.name)),
                                            node.allocatableCPU)])
    /\ UNCHANGED <<cluster, fn>>

\* A calculateCPURequests that reports a node without CPU as full
CalcCPUZeroIsFull ==
  \E s \in DOMAIN sw :
    /\ sw[s].pc = "cpu"
    /\ LET l == sw[s]
           node == l.targetNodes[l.ni]
       IN IF CPUIsZero(node)
          THEN Set(s, [l EXCEPT !.pc = "mem", !.cpuRequests = 100])
          ELSE \E ok \in BOOLEAN :
                 IF ~ok THEN Set(s, ReturnError(l, "failed to calculate CPU requests for node " \o node.name))
                 ELSE Set(s, [l EXCEPT
                        !.pc = "mem",
                        !.cpuRequests =
                            UsagePercentage(TotalCPU(getPodsOnNode(pods, node.name)),
                                            node.allocatableCPU)])
    /\ UNCHANGED <<cluster, fn>>

\* A calculateCPURequests that lists the pods before it looks at the node's
\* capacity
CalcCPUListsFirst ==
  \E s \in DOMAIN sw :
    /\ sw[s].pc = "cpu"
    /\ LET l == sw[s]
           node == l.targetNodes[l.ni]
       IN \E ok \in BOOLEAN :
            IF ~ok THEN Set(s, ReturnError(l, "failed to calculate CPU requests for node " \o node.name))
            ELSE IF CPUIsZero(node)
            THEN Set(s, [l EXCEPT !.pc = "mem", !.cpuRequests = 0])
            ELSE Set(s, [l EXCEPT
                   !.pc = "mem",
                   !.cpuRequests =
                       UsagePercentage(TotalCPU(getPodsOnNode(pods, node.name)),
                                       node.allocatableCPU)])
    /\ UNCHANGED <<cluster, fn>>

\* calculateCPURequests for node ni
CalcCPU ==
  \E s \in DOMAIN sw :
    /\ sw[s].pc = "cpu"
    /\ LET l == sw[s]
           node == l.targetNodes[l.ni]
       IN IF CPUIsZero(node)
          THEN Set(s, [l EXCEPT !.pc = "mem", !.cpuRequests = 0])
          ELSE \E ok \in BOOLEAN :
                 IF ~ok THEN Set(s, ReturnError(l, "failed to calculate CPU requests for node " \o node.name))
                 ELSE Set(s, [l EXCEPT
                        !.pc = "mem",
                        !.cpuRequests =
                            UsagePercentage(TotalCPU(getPodsOnNode(pods, node.name)),
                                            node.allocatableCPU)])
    /\ UNCHANGED <<cluster, fn>>

\* calculateMemoryRequests for node ni
CalcMemory ==
  \E s \in DOMAIN sw :
    /\ sw[s].pc = "mem"
    /\ LET l == sw[s]
           node == l.targetNodes[l.ni]
       IN IF MemoryIsZero(node)
          THEN Set(s, [l EXCEPT !.pc = "pods", !.memoryRequests = 0])
          ELSE \E ok \in BOOLEAN :
                 IF ~ok THEN Set(s, ReturnError(l, "failed to calculate memory requests for node " \o node.name))
                 ELSE Set(s, [l EXCEPT
                        !.pc = "pods",
                        !.memoryRequests =
                            UsagePercentage(TotalMemory(getPodsOnNode(pods, node.name)),
                                            node.allocatableMemory)])
    /\ UNCHANGED <<cluster, fn>>

\* The snapshot analyzeNodeResourceUsage appends for a node
Usage(node, cpu, mem, podSeq) ==
    [NodeName        |-> node.name,
     CPURequests     |-> cpu,
     MemoryRequests  |-> mem,
     IsOverloaded    |-> Classify(cpu, mem).IsOverloaded,
     IsUnderutilized |-> Classify(cpu, mem).IsUnderutilized,
     Pods            |-> podSeq]

\* The names of the pods of a node that a listing shows as terminating
TerminatingOn(items, nodeName) ==
    {items[i].name : i \in {j \in DOMAIN items :
                               items[j].nodeName = nodeName /\ items[j].deleting}}

\* A Reconcile that skips the rebalancing only when both sets are empty
GetPodsBothEmpty ==
  \E s \in DOMAIN sw :
    /\ sw[s].pc = "pods"
    /\ LET l == sw[s]
           node == l.targetNodes[l.ni]
       IN \E ok \in BOOLEAN :
            IF ~ok THEN Set(s, ReturnError(l, "failed to get pods for node " \o node.name))
            ELSE LET usages == Append(l.nodeUsages,
                                      Usage(node, l.cpuRequests, l.memoryRequests,
                                            getPodsOnNode(pods, node.name)))
                     over  == getOverloadedNodes(usages)
                     under == getUnderutilizedNodes(usages)
                     l1    == [l EXCEPT !.nodeUsages = usages,
                                        !.listedTerminating =
                                            @ \cup TerminatingOn(pods, node.name)]
                 IN IF l.ni < Len(l.targetNodes)
                    THEN Set(s, [l1 EXCEPT !.pc = "cpu", !.ni = @ + 1])
                    ELSE IF Len(over) = 0 /\ Len(under) = 0
                    THEN Set(s, ReturnRequeue(l1))
                    ELSE Set(s, [l1 EXCEPT !.pc = "node",
                                          !.overloadedNodes = over,
                                          !.underutilizedNodes = under,
                                          !.oi = 1])
    /\ UNCHANGED <<cluster, fn>>

\* The third listing for node ni, the classification, and after the last
\* node the rest of Reconcile up to performRebalancing.
GetPods ==
  \E s \in DOMAIN sw :
    /\ sw[s].pc = "pods"
    /\ LET l == sw[s]
           node == l.targetNodes[l.ni]
       IN \E ok \in BOOLEAN :
            IF ~ok THEN Set(s, ReturnError(l, "failed to get pods for node " \o node.name))
            ELSE LET usages == Append(l.nodeUsages,
                                      Usage(node, l.cpuRequests, l.memoryRequests,
                                            getPodsOnNode(pods, node.name)))
                     over  == getOverloadedNodes(usages)
                     under == getUnderutilizedNodes(usages)
                     l1    == [l EXCEPT !.nodeUsages = usages,
                                        !.listedTerminating =
                                            @ \cup TerminatingOn(pods, node.name)]
                 IN IF l.ni < Len(l.targetNodes)
                    THEN Set(s, [l1 EXCEPT !.pc = "cpu", !.ni = @ + 1])
                    ELSE IF Len(over) = 0 \/ Len(under) = 0
                    THEN Set(s, ReturnRequeue(l1))
                    ELSE Set(s, [l1 EXCEPT !.pc = "node",
                                          !.overloadedNodes = over,
                                          !.underutilizedNodes = under,
                                          !.oi = 1])
    /\ UNCHANGED <<cluster, fn>>

-----------------------------------------------------------------------------
(* performRebalancing                                                      *)

\* The head of the loop over overloadedNodes: the evictable pods of node
\* oi, sorted; the function returns nil after the last node.
ProcessNode ==
  \E s \in DOMAIN sw :
    /\ sw[s].pc = "node"
    /\ LET l == sw[s]
       IN IF l.oi > Len(l.overloadedNodes)
          THEN Set(s, ReturnRequeue(l))
          ELSE LET evictable == getEvictablePods(l.overloadedNodes[l.oi].Pods)
               IN IF Len(evictable) = 0
                  THEN Set(s, [l EXCEPT !.oi = @ + 1])
                  ELSE Set(s, [l EXCEPT !.pc = "pick",
                                        !.evictablePods =
                                            sortPodsByResourceUsage(evictable),
                                        !.pi = 1,
                                        !.attempts = <<>>])
    /\ UNCHANGED <<cluster, fn>>

\* A performRebalancing that returns the first error of evictPod, which
\* Reconcile returns in turn
AfterEvictPodFails(l, ret, requested, failed, apiErr) ==
    LET pod  == l.evictablePods[l.pi]
        last == [pod |-> pod.name, requested |-> requested, failed |-> failed,
                 apiErr |-> apiErr, ret |-> ret, validation |-> Nil]
        t    == l.target
        under == [l.underutilizedNodes EXCEPT
                    ![t].CPURequests    = @ + getPodCPURequest(pod),
                    ![t].MemoryRequests = @ + getPodMemoryRequest(pod)]
    IN IF ret # Nil
       THEN ReturnError(l, ret)
       ELSE IF ~under[t].IsUnderutilized
       THEN [l EXCEPT !.pc = "node", !.oi = @ + 1, !.lastEvict = last,
                      !.underutilizedNodes = under]
       ELSE [l EXCEPT !.pc = "pick", !.pi = @ + 1, !.lastEvict = last,
                      !.underutilizedNodes = under]

\* An inner loop that classifies the target again after the update, and
\* breaks when it is no longer underutilized
AfterEvictPodReclassifies(l, ret, requested, failed, apiErr) ==
    LET pod  == l.evictablePods[l.pi]
        last == [pod |-> pod.name, requested |-> requested, failed |-> failed,
                 apiErr |-> apiErr, ret |-> ret, validation |-> Nil]
        t    == l.target
        grown == [l.underutilizedNodes EXCEPT
                    ![t].CPURequests    = @ + getPodCPURequest(pod),
                    ![t].MemoryRequests = @ + getPodMemoryRequest(pod)]
        under == [grown EXCEPT
                    ![t].IsUnderutilized =
                        Classify(grown[t].CPURequests,
                                 grown[t].MemoryRequests).IsUnderutilized]
    IN IF ret # Nil
       THEN [l EXCEPT !.pc = "pick", !.pi = @ + 1, !.lastEvict = last]
       ELSE IF ~under[t].IsUnderutilized
       THEN [l EXCEPT !.pc = "node", !.oi = @ + 1, !.lastEvict = last,
                      !.underutilizedNodes = under]
       ELSE [l EXCEPT !.pc = "pick", !.pi = @ + 1, !.lastEvict = last,
                      !.underutilizedNodes = under]

\* An inner loop that increases the target's snapshot whatever evictPod
\* returned
AfterEvictPodAlways(l, ret, requested, failed, apiErr) ==
    LET pod  == l.evictablePods[l.pi]
        last == [pod |-> pod.name, requested |-> requested, failed |-> failed,
                 apiErr |-> apiErr, ret |-> ret, validation |-> Nil]
        t    == l.target
        under == [l.underutilizedNodes EXCEPT
                    ![t].CPURequests    = @ + getPodCPURequest(pod),
                    ![t].MemoryRequests = @ + getPodMemoryRequest(pod)]
    IN [l EXCEPT !.pc = "pick", !.pi = @ + 1, !.lastEvict = last,
                 !.underutilizedNodes = under]

\* An inner loop that gives up the node at the first error of evictPod
AfterEvictPodAbort(l, ret, requested, failed, apiErr) ==
    LET pod  == l.evictablePods[l.pi]
        last == [pod |-> pod.name, requested |-> requested, failed |-> failed,
                 apiErr |-> apiErr, ret |-> ret, validation |-> Nil]
        t    == l.target
        under == [l.underutilizedNodes EXCEPT
                    ![t].CPURequests    = @ + getPodCPURequest(pod),
                    ![t].MemoryRequests = @ + getPodMemoryRequest(pod)]
    IN IF ret # Nil
       THEN [l EXCEPT !.pc = "node", !.oi = @ + 1, !.lastEvict = last]
       ELSE [l EXCEPT !.pc = "pick", !.pi = @ + 1, !.lastEvict = last,
                      !.underutilizedNodes = under]

\* The statements of the inner loop after evictPod returned ret for pod pi
\* with target chosen: on an error, continue; otherwise the target's
\* snapshot is increased by the pod's requests and the loop breaks when the
\* target's IsUnderutilized flag is off.
AfterEvictPod(l, ret, requested, failed, apiErr) ==
    LET pod  == l.evictablePods[l.pi]
        last == [pod |-> pod.name, requested |-> requested, failed |-> failed,
                 apiErr |-> apiErr, ret |-> ret, validation |-> Nil]
        t    == l.target
        under == [l.underutilizedNodes EXCEPT
                    ![t].CPURequests    = @ + getPodCPURequest(pod),
                    ![t].MemoryRequests = @ + getPodMemoryRequest(pod)]
    IN IF ret # Nil
       THEN [l EXCEPT !.pc = "pick", !.pi = @ + 1, !.lastEvict = last]
       ELSE IF ~under[t].IsUnderutilized
       THEN [l EXCEPT !.pc = "node", !.oi = @ + 1, !.lastEvict = last,
                      !.underutilizedNodes = under]
       ELSE [l EXCEPT !.pc = "pick", !.pi = @ + 1, !.lastEvict = last,
                      !.underutilizedNodes = under]

\* A loop that leaves the destination as it was for a pod that validation
\* turned down
SkippedNoUpdate(l, why) ==
    [l EXCEPT !.pc = "pick", !.pi = @ + 1,
              !.lastEvict = [pod |-> l.evictablePods[l.pi].name,
                             requested |-> FALSE, failed |-> FALSE,
                             apiErr |-> {}, ret |-> Nil, validation |-> why]]

\* evictPod when validateEviction fails with the error why: the failure is
\* logged, no eviction is requested and evictPod returns nil.
Skipped(l, why) ==
    [AfterEvictPod(l, Nil, FALSE, FALSE, {}) EXCEPT !.lastEvict.validation = why]

\* The head of the loop over evictablePods: findBestTargetNode, then the
\* start of evictPod, i.e. the checks validateEviction makes on the pod it
\* was handed, before it lists the budgets.
PickTarget ==
  \E s \in DOMAIN sw :
    /\ sw[s].pc = "pick"
    /\ LET l == sw[s]
       IN IF l.pi > Len(l.evictablePods)
          THEN Set(s, [l EXCEPT !.pc = "node", !.oi = @ + 1,
                                !.lastEvict = NoEvict])
          ELSE LET pod == l.evictablePods[l.pi]
                   t   == findBestTargetNode(l.underutilizedNodes, pod)
                   l1  == [l EXCEPT !.target = t,
                                    !.attempts = Append(@, pod),
                                    !.lastEvict = NoEvict]
               IN IF t = 0
                  THEN Set(s, [l1 EXCEPT !.pi = @ + 1])
                  ELSE IF ~isPodEvictable(pod)
                  THEN Set(s, Skipped(l1, "pod is not evictable"))
                  ELSE IF pod.deleting
                  THEN Set(s, Skipped(l1, "pod is already terminating"))
                  ELSE Set(s, [l1 EXCEPT !.pc = "pdb"])
    /\ UNCHANGED <<cluster, fn>>

ListBudgetsFailed == "PDB check failed: list"

\* A validateEviction that lists the budgets and goes on whatever they say
CheckPDBIgnores ==
  \E s \in DOMAIN sw :
    /\ sw[s].pc = "pdb"
    /\ LET l   == sw[s]
           pod == l.evictablePods[l.pi]
       IN \E ok \in BOOLEAN :
            IF ~ok
            THEN Set(s, Skipped(l, ListBudgetsFailed))
            ELSE Set(s, [l EXCEPT !.pc = "evict"])
    /\ UNCHANGED <<cluster, fn>>

\* A validateEviction whose failed listing of the budgets ends Reconcile
\* with the error
CheckPDBAborts ==
  \E s \in DOMAIN sw :
    /\ sw[s].pc = "pdb"
    /\ LET l   == sw[s]
           pod == l.evictablePods[l.pi]
       IN \E ok \in BOOLEAN :
            IF ~ok
            THEN Set(s, ReturnError(l, ListBudgetsFailed))
            ELSE IF PDBViolated(pod, ListPDBs(pod.namespace))
            THEN Set(s, Skipped(l, "PDB check failed: eviction would violate PDB"))
            ELSE Set(s, [l EXCEPT !.pc = "evict"])
    /\ UNCHANGED <<cluster, fn>>

\* checkPodDisruptionBudget: r.List of the budgets of the pod's namespace.
\* A failed listing and a violated budget both make validateEviction fail,
\* and evictPod then returns nil.
CheckPDB ==
  \E s \in DOMAIN sw :
    /\ sw[s].pc = "pdb"
    /\ LET l   == sw[s]
           pod == l.evictablePods[l.pi]
       IN \E ok \in BOOLEAN :
            IF ~ok
            THEN Set(s, Skipped(l, ListBudgetsFailed))
            ELSE IF PDBViolated(pod, ListPDBs(pod.namespace))
            THEN Set(s, Skipped(l, "PDB check failed: eviction would violate PDB"))
            ELSE Set(s, [l EXCEPT !.pc = "evict"])
    /\ UNCHANGED <<cluster, fn>>

\* An eviction without a grace period
EvictionRequestImmediate(pod) ==
    [name |-> pod.name, namespace |-> pod.namespace,
     gracePeriodSeconds |-> 0]

\* The eviction request as the API server sees it
EvictionRequest(pod) ==
    [name |-> pod.name, namespace |-> pod.namespace,
     gracePeriodSeconds |-> EvictionGracePeriod]

\* An executor that also updates the pod, writing a status annotation
MarkTerminatingAnnotated(podSeq, name, namespace) ==
    [i \in DOMAIN podSeq |->
        IF podSeq[i].name = name /\ podSeq[i].namespace = namespace
        THEN [podSeq[i] EXCEPT
                !.deleting = TRUE,
                !.annotations = ("node-balancer/status" :> "rebalancing") @@ @]
        ELSE podSeq[i]]

\* An accepted eviction marks the pod as terminating.
MarkTerminating(podSeq, name, namespace) ==
    [i \in DOMAIN podSeq |->
        IF podSeq[i].name = name /\ podSeq[i].namespace = namespace
        THEN [podSeq[i] EXCEPT !.deleting = TRUE] ELSE podSeq[i]]

\* An evictPod that goes on to the audit record when handleEvictionError
\* returned nil for the refused request
CreateEvictionAuditsRefused ==
  \E s \in DOMAIN sw :
    /\ sw[s].pc = "evict"
    /\ LET l   == sw[s]
           pod == l.evictablePods[l.pi]
           l1  == [l EXCEPT !.evictRequests = @ \cup {EvictionRequest(pod)}]
       IN \/ /\ Set(s, [l1 EXCEPT !.pc = "evget"])
             /\ pods' = MarkTerminating(pods, pod.name, pod.namespace)
          \/ /\ \E err \in ErrTexts :
                  LET ret == handleEvictionError(err)
                      l2  == [l1 EXCEPT !.fatalEvictions =
                                 IF ret # Nil THEN @ \cup {pod.name} ELSE @]
                  IN IF ret = Nil
                     THEN Set(s, [l2 EXCEPT !.pc = "evget"])
                     ELSE Set(s, AfterEvictPod(l2, ret, TRUE, TRUE, err))
             /\ UNCHANGED pods
    /\ UNCHANGED <<nodes, pdbs, events, fn>>

\* r.Client.SubResource("eviction").Create: accepted, or refused with some
\* error text, which handleEvictionError classifies.
CreateEviction ==
  \E s \in DOMAIN sw :
    /\ sw[s].pc = "evict"
    /\ LET l   == sw[s]
           pod == l.evictablePods[l.pi]
           l1  == [l EXCEPT !.evictRequests = @ \cup {EvictionRequest(pod)}]
       IN \/ /\ Set(s, [l1 EXCEPT !.pc = "evget"])
             /\ pods' = MarkTerminating(pods, pod.name, pod.namespace)
          \/ /\ \E err \in ErrTexts :
                  LET ret == handleEvictionError(err)
                      l2  == [l1 EXCEPT !.fatalEvictions =
                                 IF ret # Nil THEN @ \cup {pod.name} ELSE @]
                  IN Set(s, AfterEvictPod(l2, ret, TRUE, TRUE, err))
             /\ UNCHANGED pods
    /\ UNCHANGED <<nodes, pdbs, events, fn>>

\* An event name that does not depend on the pod
eventNameShared(pod) == "rebalancing-event"

eventName(pod) == pod.name \o "-rebalancing-event"

EventExists(name, namespace) ==
    \E e \in events : e.name = name /\ e.namespace = namespace

\* createEvictionEvent, the r.Get: found (err == nil) returns nil at once;
\* any error, a missing event or a failed read, goes on to the create.
GetEvent ==
  \E s \in DOMAIN sw :
    /\ sw[s].pc = "evget"
    /\ LET l   == sw[s]
           pod == l.evictablePods[l.pi]
       IN \/ /\ EventExists(eventName(pod), pod.namespace)
             /\ Set(s, AfterEvictPod(l, Nil, TRUE, FALSE, {}))
          \/ Set(s, [l EXCEPT !.pc = "evcreate"])
    /\ UNCHANGED <<cluster, fn>>

\* An evictPod that returns the error of createEvictionEvent
CreateEventFails ==
  \E s \in DOMAIN sw :
    /\ sw[s].pc = "evcreate"
    /\ LET l   == sw[s]
           pod == l.evictablePods[l.pi]
           tgt == l.underutilizedNodes[l.target].NodeName
           ev  == [name |-> eventName(pod), namespace |-> pod.namespace,
                   uid |-> Cardinality(events) + 1,
                   involvedObject |-> pod.name,
                   message |-> "Pod evicted for rebalancing to node " \o tgt]
       IN \/ /\ ~EventExists(ev.name, ev.namespace)
             /\ events' = events \cup {ev}
             /\ Set(s, AfterEvictPod([l EXCEPT !.audited = @ \cup {pod.name}],
                                     Nil, TRUE, FALSE, {}))
          \/ /\ UNCHANGED events
             /\ Set(s, AfterEvictPod(
                          [l EXCEPT !.lostCreates =
                              IF EventExists(ev.name, ev.namespace)
                              THEN @ \cup {pod.name} ELSE @],
                          "failed to create eviction event", TRUE, FALSE, {}))
    /\ UNCHANGED <<nodes, pods, pdbs, fn>>

\* createEvictionEvent, the r.Create: the API server refuses a second event
\* of the same name and namespace, and gives the event it stores a UID of
\* its own; evictPod logs a failure and returns nil either way.
CreateEvent ==
  \E s \in DOMAIN sw :
    /\ sw[s].pc = "evcreate"
    /\ LET l   == sw[s]
           pod == l.evictablePods[l.pi]
           tgt == l.underutilizedNodes[l.target].NodeName
           ev  == [name |-> eventName(pod), namespace |-> pod.namespace,
                   uid |-> Cardinality(events) + 1,
                   involvedObject |-> pod.name,
                   message |-> "Pod evicted for rebalancing to node " \o tgt]
       IN \/ /\ ~EventExists(ev.name, ev.namespace)
             /\ events' = events \cup {ev}
             /\ Set(s, AfterEvictPod([l EXCEPT !.audited = @ \cup {pod.name}],
                                     Nil, TRUE, FALSE, {}))
          \/ /\ UNCHANGED events
             /\ Set(s, AfterEvictPod(
                          [l EXCEPT !.lostCreates =
                              IF EventExists(ev.name, ev.namespace)
                              THEN @ \cup {pod.name} ELSE @],
                          Nil, TRUE, FALSE, {}))
    /\ UNCHANGED <<nodes, pods, pdbs, fn>>

\* A reconciler that carries what it recorded in one call of Reconcile over
\* to the next
RequeueRemembers ==
  \E s \in DOMAIN sw :
    /\ sw[s].pc = "done"
    /\ Set(s, [sw[s] EXCEPT !.pc = "idle", !.result = NoResult])
    /\ UNCHANGED <<cluster, fn>>

\* The controller calls Reconcile again: after RequeueAfter, or after an
\* error.
Requeue ==
  \E s \in DOMAIN sw :
    /\ sw[s].pc = "done"
    /\ Set(s, IdleLocal)
    /\ UNCHANGED <<cluster, fn>>

-----------------------------------------------------------------------------
(* The clusters a sweep runs on                                            *)

MaxPods == 3

Labelled(v) == BalancerLabel :> v

Node(name, labels, cpu, allocCPU, mem, allocMem) ==
    [name |-> name, labels |-> labels,
     capacityCPU |-> cpu, allocatableCPU |-> allocCPU,
     capacityMemory |-> mem, allocatableMemory |-> allocMem]

\* List order of the API: node-a, node-plain (no label), node-over, node-b.
ClusterNodes ==
    << Node("node-a", Labelled("false"), 4000, 4000, 5 * MiB, 5 * MiB),
       Node("node-plain", EmptyMap, 4000, 4000, 5 * MiB, 5 * MiB),
       Node("node-over", Labelled("true"), 4000, 4000, 5 * MiB, 5 * MiB),
       Node("node-b", Labelled("true"), 4000, 2000, 5 * MiB, 5 * MiB) >>

Container(cpu, mem) == [hasRequests |-> TRUE, cpu |-> cpu, mem |-> mem]

NoRequests == [hasRequests |-> FALSE, cpu |-> 0, mem |-> 0]

PlainPod(kind, nodeName, containers) ==
    [name |-> kind, namespace |-> "default", nodeName |-> nodeName,
     containers |-> containers, deleting |-> FALSE,
     annotations |-> EmptyMap, affinity |-> "none", labels |-> EmptyMap]

\* The kinds of pod a cluster is made of.  On node-over: a heavy pod, a
\* two-container pod under a budget that allows no disruption, a
\* memory-heavy pod under a budget that allows one, a kube-system pod and a
\* terminating pod; on node-a and node-b a light pod each.
PodTemplates ==
    { PlainPod("heavy", "node-over", <<Container(2000, MiB)>>),
      [PlainPod("split", "node-over",
                <<Container(500, 768 * 1024), Container(500, 768 * 1024)>>)
         EXCEPT !.labels = "app" :> "web"],
      [PlainPod("memory", "node-over", <<Container(400, 3 * MiB)>>)
         EXCEPT !.labels = "app" :> "api"],
      [PlainPod("system", "node-over", <<Container(1000, MiB)>>)
         EXCEPT !.namespace = "kube-system"],
      [PlainPod("terminating", "node-over", <<Container(1000, 512 * 1024)>>)
         EXCEPT !.deleting = TRUE,
                !.annotations = EvictableAnnotation :> "true"],
      PlainPod("light-a", "node-a", <<Container(400, 512 * 1024), NoRequests>>),
      PlainPod("light-b", "node-b", <<Container(400, MiB)>>) }

\* Pod i of the list is named after its kind and its place.
Named(ts) == [i \in DOMAIN ts |-> [ts[i] EXCEPT !.name = @ \o "-" \o ToString(i)]]

PodLists == UNION {[1..n -> PodTemplates] : n \in 0..MaxPods}

Selector(matchLabels) == [present |-> TRUE, matchLabels |-> matchLabels]

NilSelector == [present |-> FALSE, matchLabels |-> EmptyMap]

PDB(name, namespace, selector, minAvailable, currentHealthy) ==
    [name |-> name, namespace |-> namespace, selector |-> selector,
     minAvailable |-> minAvailable, currentHealthy |-> currentHealthy]

\* A budget over app=web with minAvailable 2 and 2 healthy pods, a budget
\* over app=api with minAvailable 1 and 2 healthy pods, a budget without
\* selector, and a kube-system budget that selects every pod.
ClusterPDBs ==
    << PDB("web-pdb", "default", Selector("app" :> "web"), 2, 2),
       PDB("api-pdb", "default", Selector("app" :> "api"), 1, 2),
       PDB("no-selector", "default", NilSelector, 5, 0),
       PDB("system-pdb", "kube-system", Selector(EmptyMap), 1, 1) >>

NoFn == [op |-> "none"]

Init ==
    /\ nodes = ClusterNodes
    /\ \E ts \in PodLists : pods = Named(ts)
    /\ pdbs = ClusterPDBs
    /\ events = {}
    /\ sw = [s \in {"s1"} |-> IdleLocal]
    /\ fn = NoFn

Next ==
    \/ ListNodes
    \/ CalcCPU
    \/ CalcMemory
    \/ GetPods
    \/ ProcessNode
    \/ PickTarget
    \/ CheckPDB
    \/ CreateEviction
    \/ GetEvent
    \/ CreateEvent
    \/ Requeue

Spec == Init /\ [][Next]_vars

-----------------------------------------------------------------------------
(* A fleet of four nodes: node-1 and node-2 can be overloaded, node-3      *)
(* (label value "false") is underutilized or balanced, node-unlabelled     *)
(* carries no balancer label.  The pods of a cluster are any sub-list of   *)
(* FleetPods.  A second cluster has no labelled node at all.               *)

FleetNodes ==
    << Node("node-1", Labelled("true"), 4000, 4000, 5 * MiB, 5 * MiB),
       Node("node-unlabelled", "kubernetes.io/hostname" :> "node-unlabelled",
            4000, 4000, 5 * MiB, 5 * MiB),
       Node("node-2", Labelled("true"), 4000, 4000, 5 * MiB, 5 * MiB),
       Node("node-3", Labelled("false"), 4000, 4000, 5 * MiB, 5 * MiB) >>

\* api alone overloads node-1 on CPU (75%), db alone overloads node-2 on
\* memory (80%), batch alone makes node-3 balanced (40% CPU); stray would
\* overload node-unlabelled.
FleetPods ==
    << PlainPod("api", "node-1", <<Container(3000, MiB)>>),
       PlainPod("cache", "node-1", <<Container(400, 512 * 1024)>>),
       PlainPod("db", "node-2", <<Container(400, 4 * MiB)>>),
       PlainPod("job", "node-2", <<Container(400, 512 * 1024)>>),
       PlainPod("batch", "node-3", <<Container(1600, 512 * 1024)>>),
       PlainPod("stray", "node-unlabelled", <<Container(3000, MiB)>>) >>

NoLabelNodes ==
    << Node("node-no-label-1", "kubernetes.io/hostname" :> "node-no-label-1",
            4000, 4000, 5 * MiB, 5 * MiB),
       Node("node-no-label-2", "kubernetes.io/hostname" :> "node-no-label-2",
            4000, 4000, 5 * MiB, 5 * MiB) >>

NoLabelPods ==
    << PlainPod("test-pod-no-label-1", "node-no-label-1", <<Container(3000, 4 * MiB)>>),
       PlainPod("test-pod-no-label-2", "node-no-label-2", <<Container(500, 512 * 1024)>>) >>

\* The elements of seq at the places in keep, in the order of seq
RECURSIVE Pick(_, _, _)
Pick(seq, keep, i) ==
    IF i > Len(seq) THEN <<>>
    ELSE (IF i \in keep THEN <<seq[i]>> ELSE <<>>) \o Pick(seq, keep, i + 1)

InitFleet ==
    /\ \/ /\ nodes = FleetNodes
          /\ \E keep \in SUBSET DOMAIN FleetPods : pods = Pick(FleetPods, keep, 1)
       \/ /\ nodes = NoLabelNodes
          /\ pods = NoLabelPods
    /\ pdbs = ClusterPDBs
    /\ events = {}
    /\ sw = [s \in {"s1"} |-> IdleLocal]
    /\ fn = NoFn

SpecFleet == InitFleet /\ [][Next]_vars

\* Pods under budgets on node-1: guarded under web-pdb, which allows no
\* disruption, served under api-pdb, which allows one, and plain under none.
BudgetPods ==
    << [PlainPod("guarded", "node-1", <<Container(3000, MiB)>>)
          EXCEPT !.labels = "app" :> "web"],
       [PlainPod("served", "node-1", <<Container(400, 512 * 1024)>>)
          EXCEPT !.labels = "app" :> "api"],
       PlainPod("plain", "node-1", <<Container(200, 512 * 1024)>>) >>

InitBudgets ==
    /\ nodes = FleetNodes
    /\ \E keep \in SUBSET DOMAIN BudgetPods : pods = Pick(BudgetPods, keep, 1)
    /\ pdbs = ClusterPDBs
    /\ events = {}
    /\ sw = [s \in {"s1"} |-> IdleLocal]
    /\ fn = NoFn

SpecBudgets == InitBudgets /\ [][Next]_vars

\* Two pods of one name in two namespaces on node-1, node-2 and node-3
\* empty.
TenantPods ==
    << [PlainPod("api", "node-1", <<Container(3000, MiB)>>)
          EXCEPT !.namespace = "prod"],
       PlainPod("api", "node-1", <<Container(400, 512 * 1024)>>) >>

InitTenants ==
    /\ nodes = FleetNodes
    /\ pods = TenantPods
    /\ pdbs = ClusterPDBs
    /\ events = {}
    /\ sw = [s \in {"s1"} |-> IdleLocal]
    /\ fn = NoFn

SpecTenants == InitTenants /\ [][Next]_vars

\* Every API call the sweep makes returns, with a result or with an error,
\* and the controller calls Reconcile again after it returned.
SpecFleetLive == InitFleet /\ [][Next]_vars /\ WF_vars(Next)

\* Two calls of Reconcile in flight at once, on node-1 overloaded by api
\* and cache with node-2 and node-3 empty.
InitOverlap ==
    /\ nodes = FleetNodes
    /\ pods = Pick(FleetPods, {1, 2}, 1)
    /\ pdbs = ClusterPDBs
    /\ events = {}
    /\ sw = [s \in {"s1", "s2"} |-> IdleLocal]
    /\ fn = NoFn

SpecOverlap == InitOverlap /\ [][Next]_vars

-----------------------------------------------------------------------------
(* A cluster that changes under the sweep.  Between two API calls of the   *)
(* sweep other clients of the API server may have a pod terminate, set its *)
(* evictable annotation to false, remove it, or bind a new pod to a node;  *)
(* at most MaxChurn such changes happen.                                   *)

MaxChurn == 1

Churning == fn.op = "churn" /\ fn.left > 0

Churned == fn' = [fn EXCEPT !.left = @ - 1]

PodTerminates ==
    /\ Churning
    /\ \E i \in DOMAIN pods :
          /\ ~pods[i].deleting
          /\ pods' = [pods EXCEPT ![i].deleting = TRUE]
    /\ Churned
    /\ UNCHANGED <<nodes, pdbs, events, sw>>

PodAnnotated ==
    /\ Churning
    /\ \E i \in DOMAIN pods :
          /\ ~HasKey(pods[i].annotations, EvictableAnnotation)
          /\ pods' = [pods EXCEPT ![i].annotations = EvictableAnnotation :> "false"]
    /\ Churned
    /\ UNCHANGED <<nodes, pdbs, events, sw>>

PodDeleted ==
    /\ Churning
    /\ \E i \in DOMAIN pods :
          pods' = SubSeq(pods, 1, i - 1) \o SubSeq(pods, i + 1, Len(pods))
    /\ Churned
    /\ UNCHANGED <<nodes, pdbs, events, sw>>

PodCreated ==
    /\ Churning
    /\ \E k \in DOMAIN FleetPods :
          /\ \A i \in DOMAIN pods : pods[i].name # FleetPods[k].name
          /\ pods' = Append(pods, FleetPods[k])
    /\ Churned
    /\ UNCHANGED <<nodes, pdbs, events, sw>>

\* node-1 overloaded by api and cache, node-2 and node-3 empty
InitChurn ==
    /\ nodes = FleetNodes
    /\ pods = Pick(FleetPods, {1, 2}, 1)
    /\ pdbs = ClusterPDBs
    /\ events = {}
    /\ sw = [s \in {"s1"} |-> IdleLocal]
    /\ fn = [op |-> "churn", left |-> MaxChurn]

NextChurn ==
    \/ ListNodes
    \/ CalcCPU
    \/ CalcMemory
    \/ GetPods
    \/ ProcessNode
    \/ PickTarget
    \/ CheckPDB
    \/ CreateEviction
    \/ GetEvent
    \/ CreateEvent
    \/ Requeue
    \/ PodTerminates
    \/ PodAnnotated
    \/ PodDeleted
    \/ PodCreated

SpecChurn == InitChurn /\ [][NextChurn]_vars

-----------------------------------------------------------------------------
(* Nodes that report no capacity.  Each of the three labelled nodes of the  *)
(* fleet reports its capacity or its allocatable as zero for the CPU or for *)
(* the memory, or its allocatable as zero for both; api and cache run on    *)
(* node-1, db on node-2.                                                    *)

ZeroKinds ==
    {"none", "capacityCPU", "allocatableCPU", "capacityMemory", "allocatableMemory",
     "allocatable"}

Zeroed(node, kind) ==
    CASE kind = "capacityCPU"       -> [node EXCEPT !.capacityCPU = 0]
      [] kind = "allocatableCPU"    -> [node EXCEPT !.allocatableCPU = 0]
      [] kind = "capacityMemory"    -> [node EXCEPT !.capacityMemory = 0]
      [] kind = "allocatableMemory" -> [node EXCEPT !.allocatableMemory = 0]
      [] kind = "allocatable"       -> [node EXCEPT !.allocatableCPU = 0,
                                                    !.allocatableMemory = 0]
      [] OTHER                      -> node

ZeroBase ==
    << Node("node-1", Labelled("true"), 4000, 4000, 5 * MiB, 5 * MiB),
       Node("node-2", Labelled("true"), 4000, 4000, 5 * MiB, 5 * MiB),
       Node("node-3", Labelled("true"), 4000, 4000, 5 * MiB, 5 * MiB) >>

InitZero ==
    /\ \E k \in [DOMAIN ZeroBase -> ZeroKinds] :
          nodes = [i \in DOMAIN ZeroBase |-> Zeroed(ZeroBase[i], k[i])]
    /\ pods = Pick(FleetPods, {1, 2, 3}, 1)
    /\ pdbs = ClusterPDBs
    /\ events = {}
    /\ sw = [s \in {"s1"} |-> IdleLocal]
    /\ fn = NoFn

SpecZero == InitZero /\ [][Next]_vars

-----------------------------------------------------------------------------
(* The classification alone, on every pair of whole percentages            *)

NoCluster ==
    /\ nodes = <<>>
    /\ pods = <<>>
    /\ pdbs = <<>>
    /\ events = {}
    /\ sw = [s \in {} |-> IdleLocal]

InitClassify ==
    /\ NoCluster
    /\ \E cpu \in 0..100, mem \in 0..100 :
         fn = [op |-> "classify", cpu |-> cpu, mem |-> mem, done |-> FALSE,
               out |-> [IsOverloaded |-> FALSE, IsUnderutilized |-> FALSE]]

ApplyClassify ==
    /\ fn.op = "classify"
    /\ ~fn.done
    /\ fn' = [fn EXCEPT !.done = TRUE, !.out = Classify(fn.cpu, fn.mem)]
    /\ UNCHANGED <<cluster, sw>>

NextClassify == ApplyClassify

SpecClassify == InitClassify /\ [][NextClassify]_vars

-----------------------------------------------------------------------------
(* isPodEvictable alone, on every combination of the fields it reads       *)

AnnotationValues == {"true", "false", "1", "0", "TRUE", "yes", ""}

AnnotationMaps ==
    {EmptyMap, "owner" :> "false"}
      \cup {EvictableAnnotation :> v : v \in AnnotationValues}

AffinityKinds == {"none", "pod", "preferred", "required"}

InitEvictable ==
    /\ NoCluster
    /\ \E deleting \in BOOLEAN, ann \in AnnotationMaps,
          ns \in {"default", "kube-system", "prod"}, aff \in AffinityKinds :
         fn = [op |-> "evictable",
               pod |-> [PlainPod("pod", "node-over", <<Container(1000, MiB)>>)
                          EXCEPT !.deleting = deleting, !.annotations = ann,
                                 !.namespace = ns, !.affinity = aff],
               done |-> FALSE, out |-> FALSE]

ApplyEvictable ==
    /\ fn.op = "evictable"
    /\ ~fn.done
    /\ fn' = [fn EXCEPT !.done = TRUE, !.out = isPodEvictable(fn.pod)]
    /\ UNCHANGED <<cluster, sw>>

NextEvictable == ApplyEvictable

SpecEvictable == InitEvictable /\ [][NextEvictable]_vars

-----------------------------------------------------------------------------
(* Properties                                                              *)

Classified == fn.op = "classify" /\ fn.done

\* C1: a node is marked Overloaded exactly when its cpu% is greater than 60
\* or its mem% is greater than 60; with both at or below 60, exactly 60
\* included, it is not Overloaded.
C1_OverloadedIffEitherAbove60 ==
    Classified =>
        /\ (fn.cpu > 60 \/ fn.mem > 60) => fn.out.IsOverloaded
        /\ (fn.cpu <= 60 /\ fn.mem <= 60) => ~fn.out.IsOverloaded

\* One value above 60 alone suffices: cpu% 61 with mem% 0.
C1_Witness ==
    Classified /\ fn.cpu = 61 /\ fn.mem = 0 /\ fn.out.IsOverloaded

EvictableChecked == fn.op = "evictable" /\ fn.done

OverrideOf(pod) ==
    IF HasKey(pod.annotations, EvictableAnnotation)
    THEN pod.annotations[EvictableAnnotation] ELSE "<unset>"

-----------------------------------------------------------------------------
(* Properties of a sweep                                                   *)

Sweeps == DOMAIN sw

NodeNamed(name) == CHOOSE n \in {nodes[i] : i \in DOMAIN nodes} : n.name = name

\* Every pod the cluster has on a node, evictable or not
AssignedTo(nodeName) == SelectSeq(pods, LAMBDA p : p.nodeName = nodeName)

PercentOf(total, allocatable) ==
    IF (total * 100) \div allocatable > 100 THEN 100
    ELSE (total * 100) \div allocatable

Elements(seq) == {seq[i] : i \in DOMAIN seq}

\* C3: the cpu% and mem% of an analysed node are computed from the summed
\* requests of all the pods assigned to the node, the pods that are not
\* evictable included.
C3_AllAssignedPodsCounted ==
    \A s \in Sweeps : \A u \in Elements(sw[s].nodeUsages) :
        /\ u.CPURequests =
              PercentOf(TotalCPU(AssignedTo(u.NodeName)),
                        NodeNamed(u.NodeName).allocatableCPU)
        /\ u.MemoryRequests =
              PercentOf(TotalMemory(AssignedTo(u.NodeName)),
                        NodeNamed(u.NodeName).allocatableMemory)

\* C4: a pod whose listed state carries a DeletionTimestamp is no
\* candidate, whatever its evictable annotation: it is in no snapshot's pod
\* list, no target is chosen for it, and the sweep issues no eviction
\* request and creates no audit record for it.
C4_TerminatingNeverCandidate ==
    \A s \in Sweeps :
        /\ \A u \in Elements(sw[s].nodeUsages) : \A p \in Elements(u.Pods) :
              ~p.deleting /\ p.name \notin sw[s].listedTerminating
        /\ \A p \in Elements(sw[s].evictablePods) \cup Elements(sw[s].attempts) :
              ~p.deleting /\ p.name \notin sw[s].listedTerminating
        /\ \A r \in sw[s].evictRequests : r.name \notin sw[s].listedTerminating
        /\ sw[s].audited \cap sw[s].listedTerminating = {}

\* A sweep that listed a terminating pod annotated evictable=true on an
\* overloaded node and has evicted another pod of that node.
C4_Witness ==
    \E s \in Sweeps :
        /\ sw[s].evictRequests # {}
        /\ sw[s].audited # {}
        /\ \E i \in DOMAIN pods :
              /\ pods[i].name \in sw[s].listedTerminating
              /\ OverrideOf(pods[i]) = "true"
              /\ \E u \in Elements(sw[s].overloadedNodes) :
                    u.NodeName = pods[i].nodeName

\* Some budget of the pod's namespace selects the pod and has
\* currentHealthy <= minAvailable.
BudgetBlocks(pod) ==
    \E i \in DOMAIN pdbs :
        /\ pdbs[i].namespace = pod.namespace
        /\ pdbs[i].selector.present
        /\ \A k \in DOMAIN pdbs[i].selector.matchLabels :
              k \in DOMAIN pod.labels
                /\ pod.labels[k] = pdbs[i].selector.matchLabels[k]
        /\ pdbs[i].currentHealthy <= pdbs[i].minAvailable

PodNamed(name) == CHOOSE p \in Elements(pods) : p.name = name

\* C6: when a budget of the pod's namespace selects the pod and has
\* currentHealthy <= minAvailable, the sweep issues no eviction request for
\* the pod and evictPod returns nil.
C6_BudgetBlocksEviction ==
    \A s \in Sweeps :
        /\ \A r \in sw[s].evictRequests : ~BudgetBlocks(PodNamed(r.name))
        /\ (sw[s].lastEvict.pod # "" /\ BudgetBlocks(PodNamed(sw[s].lastEvict.pod))) =>
              (~sw[s].lastEvict.requested /\ sw[s].lastEvict.ret = Nil)
        /\ sw[s].pc \in {"evict", "evget", "evcreate"} =>
              ~BudgetBlocks(sw[s].evictablePods[sw[s].pi])

\* evictPod has just returned nil for a pod under a budget with
\* minAvailable = currentHealthy = 2, without requesting the eviction.
C6_Witness ==
    \E s \in Sweeps :
        /\ sw[s].lastEvict.pod # ""
        /\ BudgetBlocks(PodNamed(sw[s].lastEvict.pod))
        /\ \E i \in DOMAIN pdbs :
              pdbs[i].minAvailable = 2 /\ pdbs[i].currentHealthy = 2
        /\ ~sw[s].lastEvict.requested
        /\ sw[s].lastEvict.ret = Nil

\* The combined weight of a pod: over its containers, CPU millicores plus
\* memory in whole MiB.
Weight(pod) ==
    SumSeq([i \in DOMAIN pod.containers |->
              IF pod.containers[i].hasRequests
              THEN pod.containers[i].cpu + (pod.containers[i].mem \div MiB)
              ELSE 0])

NonIncreasing(podSeq) ==
    \A i, j \in DOMAIN podSeq : i < j => Weight(podSeq[i]) >= Weight(podSeq[j])

IsPrefix(a, b) == Len(a) <= Len(b) /\ \A i \in DOMAIN a : a[i] = b[i]

InInnerLoop(l) == l.pc \in {"pick", "pdb", "evict", "evget", "evcreate"}

\* C7: while an overloaded node is processed, the sorted candidate list is
\* a permutation of the node's evictable pods in non-increasing order of
\* weight, and the pods are attempted in the order of that list, heaviest
\* first.
C7_HeaviestFirst ==
    \A s \in Sweeps :
        InInnerLoop(sw[s]) =>
            LET l == sw[s]
                evictable == SelectSeq(l.overloadedNodes[l.oi].Pods,
                                       LAMBDA p : isPodEvictable(p))
            IN /\ Len(l.evictablePods) = Len(evictable)
               /\ Elements(l.evictablePods) = Elements(evictable)
               /\ NonIncreasing(l.evictablePods)
               /\ NonIncreasing(l.attempts)
               /\ IsPrefix(l.attempts, l.evictablePods)

\* A 1000m pod listed before a 2000m pod: the 2000m pod is attempted
\* first, the other second.
C7_Witness ==
    \E s \in Sweeps :
        LET l == sw[s]
        IN /\ InInnerLoop(l)
           /\ Len(l.attempts) = 2
           /\ getPodCPURequest(l.attempts[1]) = 2000
           /\ getPodCPURequest(l.attempts[2]) = 1000
           /\ getPodCPURequest(l.overloadedNodes[l.oi].Pods[1]) = 1000
           /\ getPodCPURequest(l.overloadedNodes[l.oi].Pods[2]) = 2000

\* The score of a destination for a pod: its cpu% and mem% after the pod's
\* requests are added, summed.
ScoreAfter(u, pod) ==
    (u.CPURequests + TotalCPU(<<pod>>)) + (u.MemoryRequests + TotalMemory(<<pod>>))

TargetChosen(l) == l.pc \in {"pdb", "evict", "evget", "evcreate"}

\* C8: the target chosen for a candidate is a node of the underutilized
\* set whose score over the current snapshots is minimal, and the first of
\* the list among those of minimal score.
C8_MinimalScoreFirstOnTie ==
    \A s \in Sweeps :
        TargetChosen(sw[s]) =>
            LET l     == sw[s]
                pod   == l.evictablePods[l.pi]
                under == l.underutilizedNodes
            IN /\ l.target \in DOMAIN under
               /\ \E u \in Elements(l.nodeUsages) :
                     u.IsUnderutilized /\ u.NodeName = under[l.target].NodeName
               /\ \A j \in DOMAIN under :
                     ScoreAfter(under[l.target], pod) <= ScoreAfter(under[j], pod)
               /\ \A j \in DOMAIN under :
                     j < l.target =>
                        ScoreAfter(under[j], pod) > ScoreAfter(under[l.target], pod)

\* Two destinations of equal score, not both empty: the first is chosen.
C8_Witness ==
    \E s \in Sweeps :
        LET l == sw[s]
        IN /\ TargetChosen(l)
           /\ Len(l.underutilizedNodes) = 2
           /\ l.underutilizedNodes[1].CPURequests > 0
           /\ ScoreAfter(l.underutilizedNodes[1], l.evictablePods[l.pi])
                = ScoreAfter(l.underutilizedNodes[2], l.evictablePods[l.pi])
           /\ l.target = 1

Snapshots(l) ==
    Elements(l.nodeUsages) \cup Elements(l.overloadedNodes)
        \cup Elements(l.underutilizedNodes)

\* C9: every cpu% and mem% held in a snapshot lies in [0,100] at every
\* point of a sweep, the updates of the destinations included.
C9_PercentagesWithin0And100 ==
    \A s \in Sweeps : \A u \in Snapshots(sw[s]) :
        /\ 0 <= u.CPURequests /\ u.CPURequests <= 100
        /\ 0 <= u.MemoryRequests /\ u.MemoryRequests <= 100

BudgetOrNotFound(err) == "PodDisruptionBudget" \in err \/ "not found" \in err

\* C10: when the eviction request fails with a budget-violation error or a
\* not-found error, evictPod returns nil, no audit record is created for
\* the pod, and the loop goes on to the next candidate.
C10_BudgetAndNotFoundAreNotErrors ==
    \A s \in Sweeps :
        LET l == sw[s]
        IN (l.lastEvict.failed /\ BudgetOrNotFound(l.lastEvict.apiErr)) =>
              /\ l.lastEvict.ret = Nil
              /\ l.lastEvict.pod \notin l.audited
              /\ ~\E e \in events : e.involvedObject = l.lastEvict.pod
              /\ l.pc = "pick"
              /\ l.evictablePods[l.pi - 1].name = l.lastEvict.pod

\* An eviction refused with "not found" for the first of two candidates:
\* nil, and the second candidate is next.
C10_Witness ==
    \E s \in Sweeps :
        LET l == sw[s]
        IN /\ l.lastEvict.failed
           /\ l.lastEvict.apiErr = {"not found"}
           /\ l.lastEvict.ret = Nil
           /\ l.pc = "pick"
           /\ l.pi = 2
           /\ Len(l.evictablePods) >= 2

Fatal(err) == "forbidden" \in err \/ ~BudgetOrNotFound(err)

\* C11: when the eviction request fails with a forbidden error, or with an
\* error that is neither a budget violation nor not-found, evictPod returns
\* a non-nil error, no audit record is created for the pod, and the loop
\* goes on to the next candidate without another attempt on the pod.
C11_ForbiddenAndOtherErrorsAreFatal ==
    \A s \in Sweeps :
        LET l == sw[s]
        IN (l.lastEvict.failed /\ Fatal(l.lastEvict.apiErr)) =>
              /\ l.lastEvict.ret # Nil
              /\ l.lastEvict.pod \notin l.audited
              /\ l.pc = "pick"
              /\ l.evictablePods[l.pi - 1].name = l.lastEvict.pod

\* One step of a sweep inside performRebalancing: a candidate in hand is
\* followed by the next candidate of the same node, the last candidate by
\* the next overloaded node, and a node by its first candidate.
LoopsGoOn(l, l2) ==
    /\ (InInnerLoop(l) /\ l.pi <= Len(l.evictablePods)) =>
          /\ InInnerLoop(l2)
          /\ l2.oi = l.oi
          /\ l2.overloadedNodes = l.overloadedNodes
          /\ l2.evictablePods = l.evictablePods
          /\ l2.pi \in {l.pi, l.pi + 1}
          /\ l2.pi = l.pi + 1 =>
                (l2.pc = "pick" /\ l2.attempts[l.pi] = l.evictablePods[l.pi])
    /\ (l.pc = "pick" /\ l.pi > Len(l.evictablePods) /\ l2 # l) =>
          /\ l2.pc = "node"
          /\ l2.oi = l.oi + 1
          /\ l2.overloadedNodes = l.overloadedNodes
    /\ (l.pc = "node" /\ l.oi <= Len(l.overloadedNodes) /\ l2 # l) =>
          /\ l2.overloadedNodes = l.overloadedNodes
          /\ IF l.overloadedNodes[l.oi].Pods = <<>>
             THEN l2.pc = "node" /\ l2.oi = l.oi + 1
             ELSE /\ l2.pc = "pick" /\ l2.oi = l.oi /\ l2.pi = 1
                  /\ Elements(l2.evictablePods) = Elements(l.overloadedNodes[l.oi].Pods)

\* C12: a failure while one candidate is handled (a fatal eviction error, a
\* budget block, a failed validation) never keeps the remaining candidates
\* of the same overloaded node, nor the later overloaded nodes, from being
\* processed in the same sweep.
C12_FailureDoesNotStopTheSweep ==
    [][\A s \in Sweeps : LoopsGoOn(sw[s], sw'[s])]_vars

\* The eviction request for a pod of the first overloaded node failed (the
\* pod is not terminating), and the eviction of a pod of the second
\* overloaded node has been accepted.
C12_Witness ==
    \E s \in Sweeps :
        LET l == sw[s]
        IN /\ l.pc = "evget"
           /\ l.oi = 2
           /\ \E r \in l.evictRequests :
                 /\ PodNamed(r.name).nodeName = l.overloadedNodes[1].NodeName
                 /\ ~PodNamed(r.name).deleting

\* C13: after any number of sweeps, one after the other or overlapping, at
\* most one audit record exists per pod name and namespace and it is named
\* <pod-name>-rebalancing-event; a sweep whose create of the record lost
\* against another sweep still has evictPod return nil for the pod.
C13_OneAuditRecordPerPod ==
    /\ \A e1, e2 \in events :
          (e1.involvedObject = e2.involvedObject /\ e1.namespace = e2.namespace)
              => e1 = e2
    /\ \A e \in events : e.name = e.involvedObject \o "-rebalancing-event"
    /\ \A s \in Sweeps :
          /\ \A name \in sw[s].audited \cup sw[s].lostCreates :
                \E e \in events : e.involvedObject = name
          /\ sw[s].lastEvict.pod \in sw[s].lostCreates =>
                (sw[s].lastEvict.ret = Nil /\ PodNamed(sw[s].lastEvict.pod).deleting)

\* Two sweeps evicted the same pod; one created the record, the create of
\* the other was refused, and its evictPod has just returned nil.
C13_Witness ==
    \E s1, s2 \in Sweeps :
        /\ s1 # s2
        /\ sw[s2].lastEvict.pod \in sw[s2].lostCreates
        /\ sw[s2].lastEvict.pod \in sw[s1].audited
        /\ sw[s2].lastEvict.ret = Nil
        /\ Cardinality({e \in events : e.involvedObject = sw[s2].lastEvict.pod}) = 1

OverRule(cpu, mem) == cpu > 60 \/ mem > 60

UnderRule(cpu, mem) == cpu < 40 /\ mem < 40

NoOptInNode == \A i \in DOMAIN nodes : BalancerLabel \notin DOMAIN nodes[i].labels

\* The sweep has returned on a failed read.
ReadFailed(l) == l.pc = "done" /\ l.result.err # Nil

\* The sweep has returned nil with a requeue after 30 seconds, and has
\* issued no eviction request and created no audit record.
EndedQuiet(l) ==
    /\ l.pc = "done"
    /\ l.result = [returned |-> TRUE, err |-> Nil, requeueAfter |-> 30]
    /\ l.evictRequests = {}
    /\ l.audited = {}

\* The classification is complete with the last node's percentages in l:
\* no node is Overloaded, or no node is Underutilized.
NothingToBalance(l) ==
    \/ ~\E u \in Elements(l.nodeUsages) \cup
                   {[CPURequests |-> l.cpuRequests, MemoryRequests |-> l.memoryRequests]} :
           OverRule(u.CPURequests, u.MemoryRequests)
    \/ ~\E u \in Elements(l.nodeUsages) \cup
                   {[CPURequests |-> l.cpuRequests, MemoryRequests |-> l.memoryRequests]} :
           UnderRule(u.CPURequests, u.MemoryRequests)

\* C14: a sweep that finds no labelled node, or classifies no node as
\* Overloaded, or no node as Underutilized, writes nothing to the cluster
\* (no eviction request, no audit record, no pod or node update) and
\* returns nil with a requeue after 30 seconds.
C14_NothingToDoWritesNothing ==
    [][\A s \in Sweeps :
          LET l == sw[s]  l2 == sw'[s]
          IN /\ (l.pc = "idle" /\ l2 # l /\ ~ReadFailed(l2) /\ NoOptInNode) =>
                    (EndedQuiet(l2) /\ cluster' = cluster)
             /\ (l.pc = "pods" /\ l.ni = Len(l.targetNodes) /\ l2 # l
                   /\ ~ReadFailed(l2) /\ NothingToBalance(l)) =>
                    (EndedQuiet(l2) /\ cluster' = cluster)]_vars

\* node-1 and node-2 are Overloaded (api, db) and node-3 is Balanced
\* (batch), so no node is Underutilized: the sweep has ended with a requeue
\* and the cluster is as it was.
C14_Witness ==
    \E s \in Sweeps :
        /\ EndedQuiet(sw[s])
        /\ {p.name : p \in Elements(pods)} = {"api", "db", "batch"}
        /\ \A p \in Elements(pods) : ~p.deleting
        /\ events = {}

\* C15: a sweep in which listing the nodes or listing the pods of a node
\* fails aborts entirely: it has returned the error with no requeue delay,
\* has issued no eviction request and created no audit record, also when
\* nodes analysed before the failure were Overloaded.
C15_FailedListingAbortsTheSweep ==
    \A s \in Sweeps :
        sw[s].result.err # Nil =>
            /\ sw[s].pc = "done"
            /\ sw[s].result.returned
            /\ sw[s].result.requeueAfter = 0
            /\ sw[s].evictRequests = {}
            /\ sw[s].audited = {}

\* The listing of node-3's pods failed after node-1, analysed before it,
\* was found Overloaded with api and node-2 Underutilized: nothing was
\* evicted.
C15_Witness ==
    \E s \in Sweeps :
        /\ sw[s].pc = "done"
        /\ sw[s].result.err = "failed to get pods for node node-3"
        /\ sw[s].evictRequests = {}
        /\ Len(pods) = 1
        /\ pods[1].name = "api" /\ pods[1].nodeName = "node-1"
        /\ ~pods[1].deleting
        /\ events = {}

HasBalancerLabel(nodeName) == BalancerLabel \in DOMAIN NodeNamed(nodeName).labels

\* The node was analysed by the sweep and its snapshot, as taken by the
\* analysis, satisfies the Overloaded (Underutilized) rule.
FoundOverloaded(l, nodeName) ==
    \E u \in Elements(l.nodeUsages) :
        u.NodeName = nodeName /\ OverRule(u.CPURequests, u.MemoryRequests)

FoundUnderutilized(l, nodeName) ==
    \E u \in Elements(l.nodeUsages) :
        u.NodeName = nodeName /\ UnderRule(u.CPURequests, u.MemoryRequests)

DestinationText(nodeName) == "Pod evicted for rebalancing to node " \o nodeName

\* C16: only nodes carrying the node-balancer/enabled label key, whatever
\* its value, are analysed; the source of every eviction request is a
\* labelled node the sweep classified Overloaded, and the destination
\* chosen, and named in an audit record, is a labelled node the sweep
\* classified Underutilized.
C16_OnlyLabelledOverloadedToUnderutilized ==
    /\ \A i \in DOMAIN pods : pods[i].deleting => HasBalancerLabel(pods[i].nodeName)
    /\ \A e \in events :
          \E i \in DOMAIN nodes :
              /\ e.message = DestinationText(nodes[i].name)
              /\ HasBalancerLabel(nodes[i].name)
    /\ \A s \in Sweeps :
          LET l == sw[s]
          IN /\ \A u \in Snapshots(l) : HasBalancerLabel(u.NodeName)
             /\ \A u \in Elements(l.overloadedNodes) : FoundOverloaded(l, u.NodeName)
             /\ \A u \in Elements(l.underutilizedNodes) : FoundUnderutilized(l, u.NodeName)
             /\ TargetChosen(l) =>
                   /\ FoundOverloaded(l, l.evictablePods[l.pi].nodeName)
                   /\ FoundUnderutilized(l, l.underutilizedNodes[l.target].NodeName)
             /\ l.pc # "done" =>
                   /\ \A r \in l.evictRequests :
                         FoundOverloaded(l, PodNamed(r.name).nodeName)
                   /\ \A e \in events :
                         e.involvedObject \in l.audited =>
                            \E u \in Elements(l.nodeUsages) :
                                /\ e.message = DestinationText(u.NodeName)
                                /\ UnderRule(u.CPURequests, u.MemoryRequests)

\* api was evicted from node-1 with node-2 as destination, while node-3
\* (label value "false") was analysed and found Balanced with batch, and
\* stray sits untouched on the node without the label.
C16_Witness ==
    \E s \in Sweeps :
        LET l == sw[s]
        IN /\ "api" \in l.audited
           /\ \E e \in events :
                 e.involvedObject = "api" /\ e.message = DestinationText("node-2")
           /\ \E u \in Elements(l.nodeUsages) :
                 /\ u.NodeName = "node-3"
                 /\ NodeNamed("node-3").labels[BalancerLabel] = "false"
                 /\ ~OverRule(u.CPURequests, u.MemoryRequests)
                 /\ ~UnderRule(u.CPURequests, u.MemoryRequests)
           /\ \E i \in DOMAIN pods :
                 pods[i].nodeName = "node-unlabelled" /\ ~pods[i].deleting

\* C17: the destination chosen for a pod is never the node the pod is on:
\* in every relocation decision the source, an overloaded node, and the
\* target, a node of the underutilized set, are different nodes, and no
\* node is in both sets.
C17_TargetIsNeverTheSource ==
    /\ \A e \in events :
          e.message # DestinationText(PodNamed(e.involvedObject).nodeName)
    /\ \A s \in Sweeps :
          LET l == sw[s]
          IN /\ \A o \in Elements(l.overloadedNodes), u \in Elements(l.underutilizedNodes) :
                   o.NodeName # u.NodeName
             /\ TargetChosen(l) =>
                   /\ l.evictablePods[l.pi].nodeName = l.overloadedNodes[l.oi].NodeName
                   /\ l.underutilizedNodes[l.target].NodeName
                         # l.overloadedNodes[l.oi].NodeName
                   /\ l.underutilizedNodes[l.target].NodeName
                         # l.evictablePods[l.pi].nodeName

\* db of node-2, the second overloaded node: its target is node-3, the
\* snapshot of which was already increased for a pod of node-1.
C17_Witness ==
    \E s \in Sweeps :
        LET l == sw[s]
        IN /\ TargetChosen(l)
           /\ l.oi = 2
           /\ l.overloadedNodes[l.oi].NodeName = "node-2"
           /\ l.evictablePods[l.pi].nodeName = "node-2"
           /\ l.underutilizedNodes[l.target].NodeName = "node-3"
           /\ l.underutilizedNodes[l.target].CPURequests > 0

\* C18: no snapshot has both IsOverloaded and IsUnderutilized set, and two
\* classifications of the same (cpu%, mem%) pair give the same flags.
C18_FlagsExcludeOneAnother ==
    \A s \in Sweeps :
        /\ \A u \in Snapshots(sw[s]) : ~(u.IsOverloaded /\ u.IsUnderutilized)
        /\ \A u, v \in Elements(sw[s].nodeUsages) :
              (u.CPURequests = v.CPURequests /\ u.MemoryRequests = v.MemoryRequests)
                  => (u.IsOverloaded = v.IsOverloaded
                        /\ u.IsUnderutilized = v.IsUnderutilized)

\* node-2 at cpu% 10 (below 40) and mem% 80 is Overloaded only, and node-1
\* and node-3, both at (0, 0), are both Underutilized only.
C18_Witness ==
    \E s \in Sweeps :
        /\ \E u \in Elements(sw[s].nodeUsages) :
              /\ u.CPURequests = 10 /\ u.MemoryRequests = 80
              /\ u.IsOverloaded /\ ~u.IsUnderutilized
        /\ \E u, v \in Elements(sw[s].nodeUsages) :
              /\ u.NodeName # v.NodeName
              /\ u.CPURequests = 0 /\ u.MemoryRequests = 0
              /\ v.CPURequests = 0 /\ v.MemoryRequests = 0
              /\ u.IsUnderutilized /\ v.IsUnderutilized
              /\ ~u.IsOverloaded /\ ~v.IsOverloaded

\* The pod is as it was, or it has become terminating and a sweep has
\* requested its eviction; nothing else of it has changed.
OnlyEvicted(old, new) ==
    \/ new = old
    \/ /\ new = [old EXCEPT !.deleting = TRUE]
       /\ \E s \in Sweeps : \E r \in sw'[s].evictRequests :
             r.name = old.name /\ r.namespace = old.namespace

\* The event is the audit record of a pod that a sweep has evicted towards
\* its target.
IsAuditRecord(e) ==
    \E s \in Sweeps :
        /\ sw[s].pc = "evcreate"
        /\ e.involvedObject = sw[s].evictablePods[sw[s].pi].name
        /\ e.namespace = sw[s].evictablePods[sw[s].pi].namespace
        /\ e.name = e.involvedObject \o "-rebalancing-event"
        /\ e.message =
              DestinationText(sw[s].underutilizedNodes[sw[s].target].NodeName)

\* C19: the controller never places a pod: no step changes a pod's node
\* assignment, adds a pod, or changes a node or a budget; the only changes
\* of the cluster are a pod becoming terminating through an eviction
\* request and the creation of an audit record, and the target appears
\* only in the sweep's snapshots and in the record's text.
C19_OnlyEvictionsAndAuditRecords ==
    [][/\ nodes' = nodes
       /\ pdbs' = pdbs
       /\ Len(pods') = Len(pods)
       /\ \A i \in DOMAIN pods : OnlyEvicted(pods[i], pods'[i])
       /\ events \subseteq events'
       /\ \A e \in events' \ events : IsAuditRecord(e)
       /\ Cardinality(events' \ events) <= 1]_vars

\* A pod was evicted from node-1 with node-2 as target: it is terminating
\* and still bound to node-1, its record names node-2, the sweep's snapshot
\* of node-2 has grown, and no pod is bound to node-2.
C19_Witness ==
    /\ \E e \in events : e.message = DestinationText("node-2")
                           /\ PodNamed(e.involvedObject).nodeName = "node-1"
                           /\ PodNamed(e.involvedObject).deleting
    /\ \A i \in DOMAIN pods : pods[i].nodeName # "node-2"
    /\ \E s \in Sweeps : \E u \in Elements(sw[s].underutilizedNodes) :
          u.NodeName = "node-2" /\ u.CPURequests > 0

\* C20: once the in-memory usage of a destination, after the updates for
\* earlier placements of the sweep, no longer satisfies the Underutilized
\* rule, the node is not chosen for a later candidate: every target chosen
\* has cpu% < 40 and mem% < 40 in its current snapshot.
C20_FilledDestinationNotChosenAgain ==
    \A s \in Sweeps :
        TargetChosen(sw[s]) =>
            UnderRule(sw[s].underutilizedNodes[sw[s].target].CPURequests,
                      sw[s].underutilizedNodes[sw[s].target].MemoryRequests)

\* In this step of the sweep evictPod returned for candidate pi.
EvictPodReturned(l, l2) ==
    InInnerLoop(l) /\ l2.pi = l.pi + 1 /\ l2.lastEvict.pod # ""

\* The snapshots of the destinations with the one at place t increased by
\* the requests of the pod.
Grown(under, t, pod) ==
    [under EXCEPT ![t].CPURequests    = @ + TotalCPU(<<pod>>),
                  ![t].MemoryRequests = @ + TotalMemory(<<pod>>)]

\* C21 as claimed: the snapshot of the chosen destination is increased for
\* the candidate whatever the outcome of the eviction request, so that it
\* holds the increase when evictPod returns.
C21_UpdatedWhateverTheOutcome ==
    [][\A s \in Sweeps :
          LET l == sw[s]  l2 == sw'[s]
          IN EvictPodReturned(l, l2) =>
                l2.underutilizedNodes =
                    Grown(l.underutilizedNodes, l2.target, l.evictablePods[l.pi])]_vars

\* C21 amended: the snapshot of the chosen destination is increased by the
\* candidate's requests after evictPod has returned nil for the candidate
\* and is left as it was when evictPod returned an error; no snapshot
\* changes between the choice of the destination and the return of
\* evictPod.
C21_UpdatedAfterEvictPodReturnedNil ==
    [][\A s \in Sweeps :
          LET l == sw[s]  l2 == sw'[s]
          IN /\ EvictPodReturned(l, l2) =>
                   l2.underutilizedNodes =
                       IF l2.lastEvict.ret = Nil
                       THEN Grown(l.underutilizedNodes, l2.target, l.evictablePods[l.pi])
                       ELSE l.underutilizedNodes
             /\ (InInnerLoop(l) /\ ~EvictPodReturned(l, l2)) =>
                   l2.underutilizedNodes = l.underutilizedNodes]_vars

\* The eviction of the first candidate was refused with an error evictPod
\* returned: the destination chosen for it is as the analysis left it.
C21_Witness ==
    \E s \in Sweeps :
        LET l == sw[s]
        IN /\ l.lastEvict.failed
           /\ l.lastEvict.ret # Nil
           /\ l.pi = 2 /\ l.oi = 1
           /\ l.underutilizedNodes[l.target] \in Elements(l.nodeUsages)

\* A request as a percentage of an allocatable capacity
PointsOf(request, allocatable) == (request * 100) \div allocatable

\* The usage a destination would have with the pod: per dimension its
\* current percentage plus the pod's request as a percentage of the
\* destination's allocatable capacity.
Hypothetical(u, pod) ==
    [cpu |-> u.CPURequests
               + PointsOf(TotalCPU(<<pod>>), NodeNamed(u.NodeName).allocatableCPU),
     mem |-> u.MemoryRequests
               + PointsOf(TotalMemory(<<pod>>), NodeNamed(u.NodeName).allocatableMemory)]

HypotheticalScore(u, pod) == Hypothetical(u, pod).cpu + Hypothetical(u, pod).mem

\* C22: the hypothetical usage of a destination is, per dimension, its
\* current percentage plus the pod's request as a percentage of the
\* destination's allocatable capacity, both when the target is scored and
\* when its snapshot is updated after a placement.
C22_RequestsAddedAsPercentages ==
    [][\A s \in Sweeps :
          LET l == sw[s]  l2 == sw'[s]
          IN /\ TargetChosen(l) =>
                   \A j \in DOMAIN l.underutilizedNodes :
                       HypotheticalScore(l.underutilizedNodes[l.target],
                                         l.evictablePods[l.pi])
                         <= HypotheticalScore(l.underutilizedNodes[j],
                                              l.evictablePods[l.pi])
             /\ (EvictPodReturned(l, l2) /\ l2.lastEvict.ret = Nil) =>
                   LET before == l.underutilizedNodes[l2.target]
                       after  == l2.underutilizedNodes[l2.target]
                       hyp    == Hypothetical(before, l.evictablePods[l.pi])
                   IN after.CPURequests = hyp.cpu /\ after.MemoryRequests = hyp.mem]_vars

PlaceIn(seq, x) == CHOOSE k \in DOMAIN seq : seq[k] = x

\* C23: the sort of the candidates is stable: two candidates of equal
\* weight are, in the sorted list, in the order they had in the listed pods
\* of the node.
C23_SortIsStable ==
    \A s \in Sweeps :
        InInnerLoop(sw[s]) =>
            LET l      == sw[s]
                listed == l.overloadedNodes[l.oi].Pods
            IN \A i, j \in DOMAIN l.evictablePods :
                  (i < j /\ Weight(l.evictablePods[i]) = Weight(l.evictablePods[j]))
                      => PlaceIn(listed, l.evictablePods[i])
                            < PlaceIn(listed, l.evictablePods[j])


\* The pod of that name is in the cluster and is no longer a candidate: it
\* is terminating or the candidate predicate rejects it
NonEvictableNow(name) ==
    \E p \in Elements(pods) : p.name = name /\ (p.deleting \/ ~isPodEvictable(p))

\* C24: when the executor starts handling a candidate that has become
\* non-evictable in the cluster since the sweep listed it, the validation
\* abandons it: the sweep does not go on to the budgets and the eviction
\* request, and no error is returned.
C24_RevalidationSeesTheCluster ==
    [][\A s \in Sweeps :
          LET l  == sw[s]
              l2 == sw'[s]
          IN (/\ l.pc = "pick"
              /\ l.pi <= Len(l.evictablePods)
              /\ l2 # l
              /\ NonEvictableNow(l.evictablePods[l.pi].name))
                 => /\ l2.pc \in {"pick", "node"}
                    /\ l2.lastEvict.ret = Nil
                    /\ l2.evictRequests = l.evictRequests]_vars

\* C27: in every snapshot of a sweep the two percentages are those of the
\* pods of the snapshot's own list: the three describe one set of pods.
C27_OneSetOfPodsPerSnapshot ==
    \A s \in Sweeps :
        \A u \in Elements(sw[s].nodeUsages) :
            LET node == NodeNamed(u.NodeName)
            IN /\ u.CPURequests
                    = UsagePercentage(TotalCPU(u.Pods), node.allocatableCPU)
               /\ u.MemoryRequests
                    = UsagePercentage(TotalMemory(u.Pods), node.allocatableMemory)


\* The step of sweep s in which the listing of the budgets failed for the
\* candidate being handled
BudgetListingFailed(l, l2) ==
    /\ l.pc = "pdb"
    /\ l2 # l
    /\ \/ l2.lastEvict.validation = ListBudgetsFailed
       \/ l2.result.err = ListBudgetsFailed

\* C25 as stated: a failed listing of the budgets aborts the sweep, so that
\* Reconcile ends there with no eviction request for the candidate or for
\* any candidate after it.
C25_FailedBudgetListingAbortsTheSweep ==
    [][\A s \in Sweeps :
          BudgetListingFailed(sw[s], sw'[s])
              => /\ sw'[s].pc = "done"
                 /\ sw'[s].evictRequests = sw[s].evictRequests]_vars

\* C25: a failed listing of the budgets makes the executor skip the
\* candidate being handled: no eviction is requested for it, evictPod returns
\* nil, Reconcile has not returned and the loop is at the next candidate of
\* the node.
C25_FailedBudgetListingSkipsTheCandidate ==
    [][\A s \in Sweeps :
          BudgetListingFailed(sw[s], sw'[s])
              => /\ sw'[s].pc = "pick"
                 /\ sw'[s].pi = sw[s].pi + 1
                 /\ sw'[s].oi = sw[s].oi
                 /\ sw'[s].lastEvict.ret = Nil
                 /\ ~sw'[s].lastEvict.requested
                 /\ sw'[s].evictRequests = sw[s].evictRequests
                 /\ sw'[s].result = NoResult]_vars

\* The listing of the budgets failed for api, the first candidate of node-1,
\* and cache is the next candidate
C25_Witness ==
    \E s \in Sweeps :
        /\ sw[s].pc = "pick"
        /\ sw[s].lastEvict.validation = ListBudgetsFailed
        /\ sw[s].lastEvict.pod = "api"
        /\ sw[s].pi = 2
        /\ sw[s].pi <= Len(sw[s].evictablePods)
        /\ sw[s].evictablePods[2].name = "cache"


\* The errors analyzeNodeResourceUsage and the listing of the nodes give
ListingErrors ==
    {"list nodes"}
      \cup {"failed to calculate CPU requests for node " \o nodes[i].name : i \in DOMAIN nodes}
      \cup {"failed to calculate memory requests for node " \o nodes[i].name : i \in DOMAIN nodes}
      \cup {"failed to get pods for node " \o nodes[i].name : i \in DOMAIN nodes}

\* C26: a Reconcile that has returned gave either the error of a failed
\* listing of the nodes or of the pods, with no requeue interval, or no error
\* with RequeueAfter = 30 s; the latter whenever evictions of the sweep failed
\* fatally.
C26_ErrorOnlyFromListings ==
    \A s \in Sweeps :
        sw[s].pc = "done" =>
            LET res == sw[s].result
            IN /\ res.returned
               /\ \/ res.err \in ListingErrors /\ res.requeueAfter = 0
                  \/ res.err = Nil /\ res.requeueAfter = 30
               /\ sw[s].fatalEvictions # {} =>
                     res.err = Nil /\ res.requeueAfter = 30

\* Reconcile has returned from a sweep in which every eviction it requested,
\* those of api and cache, failed fatally
C26_Witness ==
    \E s \in Sweeps :
        /\ sw[s].pc = "done"
        /\ sw[s].fatalEvictions = {"api", "cache"}
        /\ {r.name : r \in sw[s].evictRequests} = sw[s].fatalEvictions
        /\ sw[s].result = [returned |-> TRUE, err |-> Nil, requeueAfter |-> 30]
        /\ \A i \in DOMAIN pods : ~pods[i].deleting


\* C28: when evictPod has returned from an accepted eviction of a pod, every
\* audit record of that pod names the destination chosen for it in this
\* relocation, also when the record existed before.
C28_RecordDescribesTheDestination ==
    \A s \in Sweeps :
        LET l == sw[s]
        IN (l.lastEvict.pod # "" /\ l.lastEvict.requested /\ ~l.lastEvict.failed) =>
              \A e \in events :
                  e.involvedObject = l.lastEvict.pod =>
                      e.message = "Pod evicted for rebalancing to node "
                                      \o l.underutilizedNodes[l.target].NodeName


\* C29: for a node whose allocatable CPU (memory) is zero, the calculation
\* of the CPU (memory) requests gives 0 and cannot fail, as it lists no
\* pods: the sweep goes on to the node's next calculation, with no result
\* returned.
C29_ZeroAllocatableGivesZero ==
    [][\A s \in Sweeps :
          LET l  == sw[s]
              l2 == sw'[s]
          IN /\ (/\ l.pc = "cpu" /\ l2 # l
                 /\ l.targetNodes[l.ni].allocatableCPU = 0)
                   => /\ l2.pc = "mem"
                      /\ l2.cpuRequests = 0
                      /\ l2.result = NoResult
             /\ (/\ l.pc = "mem" /\ l2 # l
                 /\ l.targetNodes[l.ni].allocatableMemory = 0)
                   => /\ l2.pc = "pods"
                      /\ l2.memoryRequests = 0
                      /\ l2.result = NoResult]_vars

\* node-1 reports no allocatable CPU: its snapshot has 0% CPU although api
\* and cache run on it, and the sweep is at node-2
C29_Witness ==
    \E s \in Sweeps :
        /\ sw[s].pc = "cpu"
        /\ sw[s].ni = 2
        /\ sw[s].targetNodes[1].allocatableCPU = 0
        /\ sw[s].targetNodes[1].capacityCPU > 0
        /\ Len(sw[s].nodeUsages) = 1
        /\ sw[s].nodeUsages[1].CPURequests = 0
        /\ TotalCPU(sw[s].nodeUsages[1].Pods) > 0


Increased(l, l2, t, pod) ==
    /\ l2.underutilizedNodes[t].CPURequests
          = l.underutilizedNodes[t].CPURequests + getPodCPURequest(pod)
    /\ l2.underutilizedNodes[t].MemoryRequests
          = l.underutilizedNodes[t].MemoryRequests + getPodMemoryRequest(pod)

\* C31: when evictPod returns for a candidate, the chosen destination's
\* CPURequests and MemoryRequests are increased by the candidate's requests
\* exactly when the return is nil, whether or not an eviction took place,
\* and every snapshot is as before when the return is an error.
C31_IncreasedExactlyOnNil ==
    [][\A s \in Sweeps :
          LET l == sw[s]  l2 == sw'[s]
          IN EvictPodReturned(l, l2) =>
                /\ Increased(l, l2, l2.target, l.evictablePods[l.pi])
                      <=> l2.lastEvict.ret = Nil
                /\ l2.lastEvict.ret # Nil =>
                      l2.underutilizedNodes = l.underutilizedNodes
                /\ \A j \in DOMAIN l.underutilizedNodes :
                      j # l2.target =>
                          l2.underutilizedNodes[j] = l.underutilizedNodes[j]]_vars

\* No eviction took place for api, as the listing of the budgets failed, and
\* the destination chosen for it holds api's requests
C31_Witness ==
    \E s \in Sweeps :
        LET l == sw[s]
        IN /\ l.lastEvict.pod = "api"
           /\ l.lastEvict.validation = ListBudgetsFailed
           /\ ~l.lastEvict.requested
           /\ l.lastEvict.ret = Nil
           /\ l.underutilizedNodes[l.target].CPURequests = 3000
           /\ \A i \in DOMAIN pods : ~pods[i].deleting


C33_OneCheckedRequestPerPod ==
    [][\A s \in Sweeps :
          LET l == sw[s]  l2 == sw'[s]
          IN /\ (l.pc = "evict" /\ l2 # l) =>
                   LET pod == l.evictablePods[l.pi]
                   IN /\ EvictionRequest(pod) \notin l.evictRequests
                      /\ l2.evictRequests = l.evictRequests \cup {EvictionRequest(pod)}
                      /\ isPodEvictable(pod)
                      /\ ~pod.deleting
                      /\ ~PDBViolated(pod, ListPDBs(pod.namespace))
             /\ l.pc \notin {"evict", "done"} =>
                   l2.evictRequests = l.evictRequests]_vars

\* After guarded was turned down for its budget, the eviction of served,
\* under the budget that allows a disruption, has been requested, the only
\* request of the sweep so far
C33_Witness ==
    \E s \in Sweeps :
        LET l == sw[s]
        IN /\ l.pc = "evget"
           /\ l.pi = 2
           /\ l.evictablePods[1].name = "guarded"
           /\ PDBViolated(l.evictablePods[1], ListPDBs("default"))
           /\ l.evictablePods[l.pi].labels = "app" :> "api"
           /\ \E i \in DOMAIN ListPDBs("default") :
                 podMatchesPDB(l.evictablePods[l.pi], ListPDBs("default")[i])
           /\ l.evictRequests = {EvictionRequest(l.evictablePods[l.pi])}


\* The eviction of the pod was requested by sweep l and accepted: the pod is
\* terminating in the cluster
Accepted(l, pod) ==
    /\ EvictionRequest(pod) \in l.evictRequests
    /\ \E i \in DOMAIN pods :
          /\ pods[i].name = pod.name /\ pods[i].namespace = pod.namespace
          /\ pods[i].deleting

\* C34: an audit record is created only by a sweep whose eviction request
\* for the pod was accepted, and it is the record of that pod; when evictPod
\* returns without an accepted request (the pod was skipped, was not found,
\* or its eviction failed) no record has been created for the pod.
C34_RecordOnlyAfterAcceptedEviction ==
    [][\A s \in Sweeps :
          LET l == sw[s]  l2 == sw'[s]
          IN /\ (events' # events /\ l2 # l) =>
                   LET pod == l.evictablePods[l.pi]
                   IN /\ l.pc = "evcreate"
                      /\ Accepted(l, pod)
                      /\ \E e \in events' :
                            /\ events' = events \cup {e}
                            /\ e.involvedObject = pod.name
                            /\ e.namespace = pod.namespace
             /\ (/\ EvictPodReturned(l, l2)
                 /\ ~l2.lastEvict.requested \/ l2.lastEvict.failed) =>
                   /\ events' = events
                   /\ l2.audited = l.audited
                   /\ l2.lastEvict.pod \notin l2.audited]_vars

\* api was evicted and has its record; the eviction of cache was refused as
\* not found, and cache has none
C34_Witness ==
    \E s \in Sweeps :
        LET l == sw[s]
        IN /\ l.audited = {"api"}
           /\ l.lastEvict.pod = "cache"
           /\ l.lastEvict.failed
           /\ l.lastEvict.apiErr = {"not found"}
           /\ l.lastEvict.ret = Nil
           /\ {e.involvedObject : e \in events} = {"api"}


\* C35: once the eviction request was accepted, whatever the read and the
\* creation of the audit record give, evictPod returns nil: the steps of
\* createEvictionEvent lead to the creation or to a return of nil after
\* which the destination holds the pod's requests and the loop is at the
\* next candidate, Reconcile not having returned.
C35_RecordFailureIsNotAFailure ==
    [][\A s \in Sweeps :
          LET l == sw[s]  l2 == sw'[s]
          IN (l.pc \in {"evget", "evcreate"} /\ l2 # l) =>
                \/ /\ l.pc = "evget"
                   /\ l2 = [l EXCEPT !.pc = "evcreate"]
                \/ /\ EvictPodReturned(l, l2)
                   /\ l2.lastEvict.ret = Nil
                   /\ l2.lastEvict.requested
                   /\ ~l2.lastEvict.failed
                   /\ Increased(l, l2, l2.target, l.evictablePods[l.pi])
                   /\ l2.pc = "pick"
                   /\ l2.result = NoResult]_vars

\* api was evicted and the creation of its record failed: evictPod returned
\* nil, the destination holds api's requests and cache is the next candidate
C35_Witness ==
    \E s \in Sweeps :
        LET l == sw[s]
        IN /\ l.lastEvict.pod = "api"
           /\ l.lastEvict.requested /\ ~l.lastEvict.failed
           /\ l.lastEvict.ret = Nil
           /\ \E i \in DOMAIN pods : pods[i].name = "api" /\ pods[i].deleting
           /\ events = {}
           /\ l.underutilizedNodes[l.target].CPURequests = 3000
           /\ l.pc = "pick"
           /\ l.pi = 2
           /\ Len(l.evictablePods) = 2
           /\ l.evictablePods[2].name = "cache"


\* The node of that name reports no CPU and no memory
ZeroNode(name) == CPUIsZero(NodeNamed(name)) /\ MemoryIsZero(NodeNamed(name))

\* C36: the snapshot of a labelled node that reports no CPU and no memory
\* has 0% and 0%, is Underutilized and not Overloaded; and while the
\* snapshots of the destinations are as the analysis left them, the target
\* chosen for a candidate when such a node is among them has the score of
\* such a node, the requests of the candidate alone.
C36_ZeroNodeIsTheBestDestination ==
    [][\A s \in Sweeps :
          LET l == sw[s]  l2 == sw'[s]
          IN /\ \A u \in Elements(l2.nodeUsages) :
                   ZeroNode(u.NodeName) =>
                       /\ u.CPURequests = 0 /\ u.MemoryRequests = 0
                       /\ u.IsUnderutilized /\ ~u.IsOverloaded
                       /\ l2.pc \in {"cpu", "mem", "pods"}
                            \/ u \in Elements(getUnderutilizedNodes(l2.nodeUsages))
             /\ (/\ l.pc = "pick" /\ l.pi <= Len(l.evictablePods) /\ l2 # l
                 /\ l.underutilizedNodes = getUnderutilizedNodes(l.nodeUsages)
                 /\ \E j \in DOMAIN l.underutilizedNodes :
                       ZeroNode(l.underutilizedNodes[j].NodeName)) =>
                   /\ l2.target \in DOMAIN l.underutilizedNodes
                   /\ l.underutilizedNodes[l2.target].CPURequests = 0
                   /\ l.underutilizedNodes[l2.target].MemoryRequests = 0
                   /\ \A j \in DOMAIN l.underutilizedNodes :
                         Score(l.underutilizedNodes[l2.target], l.evictablePods[l.pi])
                            <= Score(l.underutilizedNodes[j], l.evictablePods[l.pi])]_vars

\* node-1 reports no allocatable CPU or memory, runs api and cache, and is
\* the target chosen for db of the overloaded node-2
C36_Witness ==
    \E s \in Sweeps :
        LET l == sw[s]
        IN /\ l.pc = "pdb"
           /\ l.evictablePods[l.pi].name = "db"
           /\ l.underutilizedNodes[l.target].NodeName = "node-1"
           /\ NodeNamed("node-1").allocatableCPU = 0
           /\ NodeNamed("node-1").allocatableMemory = 0
           /\ NodeNamed("node-1").capacityCPU > 0
           /\ Len(l.underutilizedNodes[l.target].Pods) = 2


\* The steps performRebalancing has left from the overloaded node at place
\* k on, at most: for each node its two loop heads and six steps for each
\* pod of its snapshot, and the return.
RECURSIVE StepsFrom(_, _)
StepsFrom(over, k) ==
    IF k > Len(over) THEN 1
    ELSE 8 + 6 * Len(over[k].Pods) + StepsFrom(over, k + 1)

\* The steps a sweep has left at most: three listings for each labelled
\* node, then one decision of at most six steps for each listed pod.
StepsLeft(l) ==
    LET analysed == 2 + 8 * Len(nodes) + 6 * Len(pods)
    IN CASE l.pc = "done" -> 0
         [] l.pc = "idle" -> analysed + 4 * Len(nodes) + 4
         [] l.pc = "cpu"  -> analysed + 4 * (Len(l.targetNodes) - l.ni) + 3
         [] l.pc = "mem"  -> analysed + 4 * (Len(l.targetNodes) - l.ni) + 2
         [] l.pc = "pods" -> analysed + 4 * (Len(l.targetNodes) - l.ni) + 1
         [] l.pc = "node" -> StepsFrom(l.overloadedNodes, l.oi)
         [] OTHER ->
              StepsFrom(l.overloadedNodes, l.oi + 1)
                + 6 * (Len(l.evictablePods) - l.pi + 1)
                + (CASE l.pc = "pick" -> 5 [] l.pc = "pdb" -> 4
                     [] l.pc = "evict" -> 3 [] l.pc = "evget" -> 2
                     [] OTHER -> 1)

\* C37: every sweep terminates: each step of a call of Reconcile lowers the
\* number of steps it has left, which is bounded by the labelled nodes and
\* the listed pods, and a call that has started returns.
C37_EverySweepReturns ==
    /\ [][\A s \in Sweeps :
             (sw[s].pc # "done" /\ sw'[s] # sw[s]) =>
                 /\ StepsLeft(sw'[s]) < StepsLeft(sw[s])
                 /\ StepsLeft(sw'[s]) >= 0]_vars
    /\ (sw["s1"].pc = "idle") ~> (sw["s1"].pc = "done")

\* Reconcile has returned from a sweep that listed the pods of two labelled
\* nodes and decided on two candidates
C37_Witness ==
    \E s \in Sweeps :
        /\ sw[s].pc = "done"
        /\ sw[s].result.err = Nil
        /\ Cardinality(sw[s].evictRequests) = 2


\* C38: every eviction request carries a grace period of 30 seconds, and
\* the request issued for a candidate has the name and the namespace of that
\* candidate, so that no other pod is marked by it.
C38_RequestNamesThePodWith30Seconds ==
    [][\A s \in Sweeps :
          LET l == sw[s]  l2 == sw'[s]
          IN /\ \A r \in l2.evictRequests : r.gracePeriodSeconds = 30
             /\ (l.pc = "evict" /\ l2 # l) =>
                   LET pod == l.evictablePods[l.pi]
                   IN /\ \E r \in l2.evictRequests :
                            /\ l2.evictRequests = l.evictRequests \cup {r}
                            /\ r.name = pod.name
                            /\ r.namespace = pod.namespace
                            /\ r.gracePeriodSeconds = 30
                      /\ \A i \in DOMAIN pods :
                            pods'[i] # pods[i] =>
                                /\ pods[i].name = pod.name
                                /\ pods[i].namespace = pod.namespace]_vars

\* Both pods named api were the object of a request, each in its namespace:
\* the one of prod is terminating, the one of default, whose eviction was
\* refused, is not
C38_Witness ==
    \E s \in Sweeps :
        /\ sw[s].evictRequests
              = {[name |-> "api", namespace |-> "prod", gracePeriodSeconds |-> 30],
                 [name |-> "api", namespace |-> "default", gracePeriodSeconds |-> 30]}
        /\ \E i \in DOMAIN pods : pods[i].namespace = "prod" /\ pods[i].deleting
        /\ \E i \in DOMAIN pods : pods[i].namespace = "default" /\ ~pods[i].deleting


\* The spellings strconv.ParseBool reads as a boolean
BooleanSpellings ==
    {"1", "t", "T", "TRUE", "true", "True", "0", "f", "F", "FALSE", "false", "False"}

\* C39: a pod that is not terminating and whose evictable annotation is
\* present with a value that is no spelling of a boolean is not a candidate,
\* whatever its namespace and its affinity.
C39_UnparseableOverrideExcludes ==
    (/\ EvictableChecked
     /\ ~fn.pod.deleting
     /\ HasKey(fn.pod.annotations, EvictableAnnotation)
     /\ fn.pod.annotations[EvictableAnnotation] \notin BooleanSpellings)
        => ~fn.out

\* evictable=yes on a pod of the default namespace without affinity, which
\* would be a candidate without the annotation
C39_Witness ==
    /\ EvictableChecked /\ ~fn.pod.deleting
    /\ OverrideOf(fn.pod) = "yes"
    /\ fn.pod.namespace = "default" /\ fn.pod.affinity = "none"
    /\ ~fn.out

====
